---- MODULE Spec2Model ----
(***************************************************************************)
(* Santi: a declarative DOM rewriter.  The model covers the tree surgery   *)
(* of DOM_UTIL.ts (swap, wrap, unwrap), the WrapChain class and the rule   *)
(* interpreter Santi.execute with its standard operations.                 *)
(*                                                                         *)
(* The DOM is a forest over a fixed pool of nodes: tree[n] is the ordered  *)
(* childNodes list of n, kind[n] its node type.  A node that is parentless *)
(* and childless stands for a node created by document.createElement.      *)
(***************************************************************************)
EXTENDS Integers, Sequences, FiniteSets, TLC

NumNodes == 5
MaxChainLen == 2
MaxOps == 2

Nodes == 1..NumNodes
Null == 0

VARIABLES tree, kind, hist

vars == <<tree, kind, hist>>

(***************************************************************************)
(* Sequence helpers                                                        *)
(***************************************************************************)
Range(s) == {s[i] : i \in DOMAIN s}

IndexOf(s, x) == CHOOSE i \in DOMAIN s : s[i] = x

Without(s, x) == SelectSeq(s, LAMBDA y : y # x)

Last(s) == s[Len(s)]

(***************************************************************************)
(* The Tree Adapter: the DOM navigation and mutation primitives the code   *)
(* calls, with the exceptions the DOM raises.                              *)
(***************************************************************************)
IsElement(n) == kind[n] \in {"div", "span"}

parentNode(t, n) ==
  IF \E p \in Nodes : n \in Range(t[p])
  THEN CHOOSE p \in Nodes : n \in Range(t[p])
  ELSE Null

\* Node.parentElement: the parent when it is an Element, else null
parentElement(t, n) ==
  LET p == parentNode(t, n)
  IN IF p # Null /\ IsElement(p) THEN p ELSE Null

firstChild(t, n) == IF t[n] = <<>> THEN Null ELSE Head(t[n])

nextSibling(t, n) ==
  LET p == parentNode(t, n)
  IN IF p = Null THEN Null
     ELSE LET i == IndexOf(t[p], n)
          IN IF i = Len(t[p]) THEN Null ELSE t[p][i + 1]

RECURSIVE IsInclusiveAncestor(_, _, _)
IsInclusiveAncestor(t, a, n) ==
  \/ a = n
  \/ parentNode(t, n) # Null /\ IsInclusiveAncestor(t, a, parentNode(t, n))

Reachable(t, root, n) == IsInclusiveAncestor(t, root, n)

Ok(t) == [t |-> t, err |-> FALSE]
Fail(t) == [t |-> t, err |-> TRUE]

\* F applied to the value of v, v being evaluated once
Let(v, F(_)) == CHOOSE y \in {F(x) : x \in {v}} : TRUE

\* statement sequencing: r is the outcome so far, F the next statement, run
\* on the tree r left unless r threw
Then(r, F(_)) == CHOOSE y \in {IF x.err THEN x ELSE F(x.t) : x \in {r}} : TRUE

\* ChildNode.remove(): detach the node from its parent, if any
remove(t, n) == [p \in Nodes |-> Without(t[p], n)]

\* Node.insertBefore(node, ref): HierarchyRequestError when parent cannot
\* have children or node is an inclusive ancestor of parent, NotFoundError
\* when ref is not a child of parent; ref = node means node's next sibling;
\* a DocumentFragment is replaced by its children.
insertBefore(t, parent, node, ref) ==
  IF \/ kind[parent] = "text"
     \/ IsInclusiveAncestor(t, node, parent)
     \/ (ref # Null /\ parentNode(t, ref) # parent)
  THEN Fail(t)
  ELSE LET r == IF ref = node THEN nextSibling(t, node) ELSE ref
           moved == IF kind[node] = "frag" THEN t[node] ELSE <<node>>
           t1 == IF kind[node] = "frag" THEN [t EXCEPT ![node] = <<>>]
                 ELSE remove(t, node)
           i == IF r = Null THEN Len(t1[parent]) + 1 ELSE IndexOf(t1[parent], r)
       IN Ok([t1 EXCEPT ![parent] =
                SubSeq(@, 1, i - 1) \o moved \o SubSeq(@, i, Len(@))])

appendChild(t, parent, node) == insertBefore(t, parent, node, Null)

\* Node.removeChild(child): NotFoundError when child is not a child of parent
removeChild(t, parent, child) ==
  IF parentNode(t, child) # parent THEN Fail(t) ELSE Ok(remove(t, child))

(***************************************************************************)
(* DOM_TYPES type guards                                                   *)
(***************************************************************************)
isChildNode(t, n) == parentNode(t, n) # Null

isParentNode(t, n) == firstChild(t, n) # Null

isAppendable(t, n) ==
  isChildNode(t, n) \/ IsElement(n) \/ kind[n] = "frag"

(***************************************************************************)
(* DOM_UTIL.ts                                                             *)
(***************************************************************************)
RECURSIVE appendContent(_, _, _)
appendContent(t, parent, content) ==
  IF content = <<>> THEN Ok(t)
  ELSE Then(appendChild(t, parent, Head(content)),
            LAMBDA t1 : appendContent(t1, parent, Tail(content)))

clearChildren(t, parent) == [t EXCEPT ![parent] = <<>>]

RECURSIVE transferChildren(_, _, _)
transferChildren(t, from, to) ==
  LET child == firstChild(t, from)
  IN IF child = Null THEN Ok(t)
     ELSE Then(appendChild(t, to, child),
               LAMBDA t1 : transferChildren(t1, from, to))

swapParentsAndChildren(t, outer1, inner1, outer2, inner2) ==
  LET parent1 == parentElement(t, outer1)
      parent2 == parentElement(t, outer2)
      inner2OldChildren == t[inner2]
      outer2OldSibling == nextSibling(t, outer2)
      \* lines 286-291
      PutChildren1In2(t1) ==
        IF isAppendable(t1, inner2) THEN transferChildren(t1, inner1, inner2)
        ELSE IF isParentNode(t1, inner1) THEN Fail(t1)
        ELSE Ok(t1)
      \* lines 292-298
      PutOuter2At1(t2) ==
        IF parent1 = Null
        THEN (IF isChildNode(t2, outer2) THEN Ok(remove(t2, outer2)) ELSE Ok(t2))
        ELSE insertBefore(t2, parent1, outer2, outer1)
      \* lines 301-307
      PutOuter1At2(t3) ==
        IF parent2 = Null
        THEN (IF isChildNode(t3, outer1) THEN Ok(remove(t3, outer1)) ELSE Ok(t3))
        ELSE insertBefore(t3, parent2, outer1, outer2OldSibling)
      \* lines 308-312
      PutChildren2In1(t4) ==
        IF isAppendable(t4, inner1)
        THEN appendContent(t4, inner1, inner2OldChildren)
        ELSE IF Len(inner2OldChildren) # 0 THEN Fail(t4)
        ELSE Ok(t4)
  IN Then(Then(Then(Then(Ok(clearChildren(t, inner2)), PutChildren1In2),
                    PutOuter2At1),
               PutOuter1At2),
          PutChildren2In1)

swapNodes(t, node1, node2) ==
  IF node1 # node2 THEN swapParentsAndChildren(t, node1, node1, node2, node2)
  ELSE Ok(t)

RECURSIVE unwrapLoop(_, _, _, _)
unwrapLoop(t, parent, outerNode, innerNode) ==
  LET child == firstChild(t, innerNode)
  IN IF child = Null THEN Ok(t)
     ELSE Then(insertBefore(t, parent, child, outerNode),
               LAMBDA t1 : unwrapLoop(t1, parent, outerNode, innerNode))

\* unwrap with the children appended to the parent instead of inserted
\* before outerNode
unwrap_appendsChildren(t, outerNode, innerNode) ==
  LET parent == parentNode(t, outerNode)
  IN IF parent = Null THEN Fail(t)
     ELSE Then(transferChildren(t, innerNode, parent),
               LAMBDA t1 : removeChild(t1, parent, outerNode))

\* unwrap with the parent check made after the children have left innerNode
unwrap_checksLate(t, outerNode, innerNode) ==
  LET parent == parentNode(t, outerNode)
  IN IF parent = Null THEN Fail(clearChildren(t, innerNode))
     ELSE Then(unwrapLoop(t, parent, outerNode, innerNode),
               LAMBDA t1 : removeChild(t1, parent, outerNode))

unwrap(t, outerNode, innerNode) ==
  LET parent == parentNode(t, outerNode)
  IN IF parent = Null THEN Fail(t)
     ELSE Then(unwrapLoop(t, parent, outerNode, innerNode),
               LAMBDA t1 : removeChild(t1, parent, outerNode))

\* wraps[i] of a JS array, undefined (Null) out of range; i is 0-based
At(wraps, i) == IF i + 1 \in DOMAIN wraps THEN wraps[i + 1] ELSE Null

swapWraps(t, wraps1, wraps2) ==
  LET outer1 == At(wraps1, 0)
      inner1 == At(wraps1, Len(wraps1) - 1)
      outer2 == At(wraps2, 0)
      inner2 == At(wraps2, Len(wraps2) - 1)
  IN IF Len(wraps1) = 0
     THEN (IF outer2 # Null /\ isChildNode(t, outer2) THEN unwrap(t, outer2, inner2)
           ELSE Ok(t))
     ELSE IF Len(wraps2) = 0
     THEN (IF outer1 # Null /\ isChildNode(t, outer1) THEN unwrap(t, outer1, inner1)
           ELSE Ok(t))
     ELSE swapParentsAndChildren(t, outer1, inner1, outer2, inner2)

wrap(t, node, wrapper) ==
  LET parent == parentElement(t, node)
  IN Then(IF parent # Null THEN insertBefore(t, parent, wrapper, node) ELSE Ok(t),
          LAMBDA t1 : appendChild(t1, wrapper, node))

wrapInner(t, node, wrapper) ==
  Then(transferChildren(t, node, wrapper), LAMBDA t1 : appendChild(t1, node, wrapper))

Reverse(s) == [i \in DOMAIN s |-> s[Len(s) + 1 - i]]

\* DOM_UTIL.getWrapsAround: the loop climbs through parentElement
RECURSIVE getWrapsAroundLoop(_, _, _)
getWrapsAroundLoop(t, nodePtr, revWrappers) ==
  LET next == parentElement(t, nodePtr)
  IN IF next = Null \/ Len(t[next]) # 1 THEN revWrappers
     ELSE getWrapsAroundLoop(t, next, Append(revWrappers, next))

getWrapsAround(t, node) == Reverse(getWrapsAroundLoop(t, node, <<>>))

\* DOM_UTIL.getWrapsWithin: the loop runs while childNodes.length !== 1
RECURSIVE getWrapsWithinLoop(_, _, _)
getWrapsWithinLoop(t, nodePtr, wrappers) ==
  IF Len(t[nodePtr]) # 1
  THEN LET next == firstChild(t, nodePtr)
       IN IF next = Null THEN wrappers
          ELSE getWrapsWithinLoop(t, next, Append(wrappers, next))
  ELSE wrappers

getWrapsWithin(t, node) == getWrapsWithinLoop(t, node, <<>>)

\* A direction argument: undefined, a string or an array of strings.  A
\* discovery result is [err, wraps].
NoDirection == [type |-> "undefined", str |-> "", arr |-> <<>>]
Dir(str) == [type |-> "string", str |-> str, arr |-> <<>>]
Dirs(arr) == [type |-> "array", str |-> "", arr |-> arr]

Found(wraps) == [err |-> FALSE, wraps |-> wraps]
NotFound == [err |-> TRUE, wraps |-> <<>>]

\* the switch over a direction string
getWrapsDirectionString(t, node, str) ==
  IF str = "self" THEN Found(<<node>>)
  ELSE IF str \in {"around", "ancestors"} THEN Found(getWrapsAround(t, node))
  ELSE IF str \in {"within", "descendants"} THEN Found(getWrapsWithin(t, node))
  ELSE NotFound

\* the loop over an array of directions, throwing at the first that throws
RECURSIVE getWrapsDirectionArray(_, _, _, _)
getWrapsDirectionArray(t, node, arr, wraps) ==
  IF arr = <<>> THEN Found(wraps)
  ELSE LET subWraps == getWrapsDirectionString(t, node, Head(arr))
       IN IF subWraps.err THEN NotFound
          ELSE getWrapsDirectionArray(t, node, Tail(arr), wraps \o subWraps.wraps)

getWrapsDirection(t, node, direction) ==
  IF direction.type = "undefined" THEN Found(<<node>>)
  ELSE IF direction.type = "string"
  THEN getWrapsDirectionString(t, node, direction.str)
  ELSE getWrapsDirectionArray(t, node, direction.arr, <<>>)

(***************************************************************************)
(* WrapChain: a chain is the array this.nodes.  An argument of type        *)
(* Node|WrapChain is a record [isNode, node, nodes].                       *)
(***************************************************************************)
AsNode(n) == [isNode |-> TRUE, node |-> n, nodes |-> <<>>]
AsChain(c) == [isNode |-> FALSE, node |-> Null, nodes |-> c]

\* this.nodes[0] || null: an entry that is no node (undefined) gives null
outerNode(nodes) ==
  LET n == At(nodes, 0) IN IF n \in Nodes THEN n ELSE Null

innerNode(nodes) == At(nodes, Len(nodes))

getOuterNode(nodeOrChain) ==
  IF nodeOrChain.isNode THEN nodeOrChain.node ELSE outerNode(nodeOrChain.nodes)

getInnerNode(nodeOrChain) ==
  IF nodeOrChain.isNode THEN nodeOrChain.node ELSE innerNode(nodeOrChain.nodes)

\* the constructor's loop: TRUE iff no TypeError is thrown
ChainConstructs(t, wraps) ==
  \A i \in 1..(Len(wraps) - 1) :
    /\ Len(t[wraps[i]]) = 1
    /\ firstChild(t, wraps[i]) = wraps[i + 1]

\* the constructor's loop without the identity test of line 38
RECURSIVE constructorLoop_countsOnly(_, _, _)
constructorLoop_countsOnly(t, wraps, i) ==
  IF ~(i < Len(wraps) - 1) THEN -1
  ELSE IF Len(t[At(wraps, i)]) # 1 THEN i
  ELSE constructorLoop_countsOnly(t, wraps, i + 1)

\* the constructor's loop from index i (0-based) on: the index the TypeError
\* names, or -1 when the loop ends without throwing
RECURSIVE constructorLoop(_, _, _)
constructorLoop(t, wraps, i) ==
  IF ~(i < Len(wraps) - 1) THEN -1
  ELSE LET node == At(wraps, i)
           numChildren == Len(t[node])
       IN IF numChildren # 1 THEN i
          ELSE IF firstChild(t, node) # At(wraps, i + 1) THEN i
          ELSE constructorLoop(t, wraps, i + 1)

\* new WrapChain(wraps): [err, index, nodes]; nodes is this.nodes of the
\* chain built, there is no chain when err
WrapChain_constructor(t, wraps) ==
  LET index == constructorLoop(t, wraps, 0)
  IN IF index # -1 THEN [err |-> TRUE, index |-> index, nodes |-> <<>>]
     ELSE [err |-> FALSE, index |-> -1, nodes |-> wraps]

\* WrapChain.getWrapsAround: the loop climbs through parentNode
RECURSIVE WrapChain_getWrapsAroundLoop(_, _, _)
WrapChain_getWrapsAroundLoop(t, nodePtr, revWrappers) ==
  LET next == parentNode(t, nodePtr)
  IN IF next = Null \/ Len(t[next]) # 1 THEN revWrappers
     ELSE WrapChain_getWrapsAroundLoop(t, next, Append(revWrappers, next))

WrapChain_getWrapsAround(t, node) ==
  Reverse(WrapChain_getWrapsAroundLoop(t, node, <<>>))

\* a descent through first children that runs while the node has some
\* number of children other than one
RECURSIVE WrapChain_getWrapsWithin_firstChildrenLoop(_, _, _)
WrapChain_getWrapsWithin_firstChildrenLoop(t, nodePtr, wrappers) ==
  IF Len(t[nodePtr]) # 1
  THEN LET next == firstChild(t, nodePtr)
       IN IF next = Null THEN wrappers
          ELSE WrapChain_getWrapsWithin_firstChildrenLoop(t, next, Append(wrappers, next))
  ELSE wrappers

WrapChain_getWrapsWithin_firstChildren(t, node) ==
  WrapChain_getWrapsWithin_firstChildrenLoop(t, node, <<>>)

\* WrapChain.getWrapsWithin: the loop runs while childNodes.length === 1
RECURSIVE WrapChain_getWrapsWithinLoop(_, _, _)
WrapChain_getWrapsWithinLoop(t, nodePtr, wrappers) ==
  IF Len(t[nodePtr]) = 1
  THEN LET next == firstChild(t, nodePtr)
       IN IF next = Null THEN wrappers
          ELSE WrapChain_getWrapsWithinLoop(t, next, Append(wrappers, next))
  ELSE wrappers

WrapChain_getWrapsWithin(t, node) == WrapChain_getWrapsWithinLoop(t, node, <<>>)

WrapChain_getWrapsString(t, node, str) ==
  IF str = "self" THEN Found(<<node>>)
  ELSE IF str \in {"around", "ancestors"} THEN Found(WrapChain_getWrapsAround(t, node))
  ELSE IF str \in {"within", "descendants"} THEN Found(WrapChain_getWrapsWithin(t, node))
  ELSE NotFound

RECURSIVE WrapChain_getWrapsArray(_, _, _, _)
WrapChain_getWrapsArray(t, node, arr, wraps) ==
  IF arr = <<>> THEN Found(wraps)
  ELSE LET subWraps == WrapChain_getWrapsString(t, node, Head(arr))
       IN IF subWraps.err THEN NotFound
          ELSE WrapChain_getWrapsArray(t, node, Tail(arr), wraps \o subWraps.wraps)

\* lines 114-129: the two scans of trim and the slice; trim is a predicate
\* [def, s], true exactly of the nodes in s
RECURSIVE trimStart(_, _, _)
trimStart(wraps, trim, start) ==
  IF start < Len(wraps) /\ At(wraps, start) \in trim.s
  THEN trimStart(wraps, trim, start + 1)
  ELSE start

\* the scan from the end left out: the slice runs to the last entry
trimEnd_keepsTrailing(wraps, trim, start, end) == end

RECURSIVE trimEnd(_, _, _, _)
trimEnd(wraps, trim, start, end) ==
  IF end > start /\ At(wraps, end) \in trim.s
  THEN trimEnd(wraps, trim, start, end - 1)
  ELSE end

\* Array.slice(start, end + 1), 0-based
Slice(wraps, start, end) == SubSeq(wraps, start + 1, end + 1)

WrapChain_getWraps(t, node, direction, trim) ==
  LET found == IF direction.type = "undefined" THEN Found(<<node>>)
               ELSE IF direction.type = "string"
               THEN WrapChain_getWrapsString(t, node, direction.str)
               ELSE WrapChain_getWrapsArray(t, node, direction.arr, <<>>)
      wraps == found.wraps
      start == trimStart(wraps, trim, 0)
      end == trimEnd(wraps, trim, start, Len(wraps) - 1)
  IN IF found.err \/ ~trim.def THEN found
     ELSE Found(Slice(wraps, start, end))

\* WrapChain.fromNode: new WrapChain(WrapChain.getWraps(node, direction,
\* options)); an error of getWraps has index -1, as it names no index
WrapChain_fromNode(t, node, direction, trim) ==
  LET chain == WrapChain_getWraps(t, node, direction, trim)
  IN IF chain.err THEN [err |-> TRUE, index |-> -1, nodes |-> <<>>]
     ELSE WrapChain_constructor(t, chain.wraps)

WrapChain_appendChild(t, nodes, newChild) ==
  LET inner == innerNode(nodes)
      newChildOuter == getOuterNode(newChild)
  IN IF inner = Null THEN Fail(t)
     ELSE IF newChildOuter = Null THEN Fail(t)
     ELSE appendChild(t, inner, newChildOuter)

swapWith(t, nodes, node) ==
  LET myOuter == outerNode(nodes)
      myInner == innerNode(nodes)
      nodeOuter == getOuterNode(node)
      nodeInner == getInnerNode(node)
  IN IF myOuter = Null \/ myInner = Null
     THEN (IF nodeOuter = Null \/ nodeInner = Null THEN Ok(t)
           ELSE unwrap(t, nodeOuter, nodeInner))
     ELSE IF nodeOuter = Null \/ nodeInner = Null
     THEN unwrap(t, myOuter, myInner)
     ELSE swapParentsAndChildren(t, myOuter, myInner, nodeOuter, nodeInner)

WrapChain_wrap(t, nodes, node) ==
  LET nodeOuter == getOuterNode(node)
      myOuter == outerNode(nodes)
  IN IF nodeOuter = Null THEN Fail(t)
     ELSE IF myOuter = Null THEN Fail(t)
     ELSE LET nodeParent == parentNode(t, nodeOuter)
          IN Then(IF nodeParent # Null
                  THEN insertBefore(t, nodeParent, myOuter, nodeOuter)
                  ELSE Ok(t),
                  LAMBDA t1 : WrapChain_appendChild(t1, nodes, node))

(***************************************************************************)
(* Lazy specifications (DOM_UTIL.ts delazyNode, delazyWraps).  The nodes   *)
(* in free are the elements document.createElement has not created yet,    *)
(* kind[n] the tag n is created with; createElement takes the first one of *)
(* the tag asked for.  A lazy node is a template string, a node, or a      *)
(* function, given by the string or the node it returns for any argument.  *)
(***************************************************************************)
\* an array entry that holds undefined
Undef == -1

LazyString(str) == [type |-> "string", str |-> str, node |-> Null]

LazyConcrete(n) == [type |-> "node", str |-> "", node |-> n]

LazyFunction(returned) == [returned EXCEPT !.type = "function"]

\* spec.match(/^[\w-]+/) on the template strings of the model: the tag
\* name, or "null" when the string does not start with one
tagMatch(spec) ==
  CASE spec = "div" -> "div"
    [] spec = "span.note" -> "span"
    [] OTHER -> "null"

\* createEl(tagname, undefined, attrs): the element created, Null when the
\* model holds no further element of the tag
createEl(free, tagName) ==
  LET fit == {n \in free : kind[n] = tagName}
  IN IF fit = {} THEN Null ELSE CHOOSE n \in fit : \A m \in fit : n <= m

\* the outcome of a resolution: err when it throws, short when the model
\* ran out of elements, free the elements left to create
Resolved(err, short, free, node) ==
  [err |-> err, short |-> short, free |-> free, node |-> node]

\* lines 67-100, the string case of delazyNode
delazyString(free, str) ==
  IF tagMatch(str) = "null" THEN Resolved(TRUE, FALSE, free, Null)
  ELSE LET elem == createEl(free, tagMatch(str))
       IN IF elem = Null THEN Resolved(FALSE, TRUE, free, Null)
          ELSE Resolved(FALSE, FALSE, free \ {elem}, elem)

\* delazyNode(spec, lazyArg): a node is returned as it is, a function is
\* called and what it returns is resolved
delazyNode(free, spec) ==
  IF spec.type = "string" THEN delazyString(free, spec.str)
  ELSE IF spec.type = "node" THEN Resolved(FALSE, FALSE, free, spec.node)
  ELSE IF spec.node # Null THEN Resolved(FALSE, FALSE, free, spec.node)
  ELSE delazyString(free, spec.str)

\* the outcome of a chain resolution
Wraps(t, err, short, free, wraps) ==
  [t |-> t, err |-> err, short |-> short, free |-> free, wraps |-> wraps]

\* Array.map(lazyNode => delazyNode(lazyNode)), the entries in order
RECURSIVE delazyEach(_, _, _, _)
delazyEach(t, free, specs, newWraps) ==
  IF specs = <<>> THEN Wraps(t, FALSE, FALSE, free, newWraps)
  ELSE Let(delazyNode(free, Head(specs)),
           LAMBDA r : IF r.err \/ r.short THEN Wraps(t, r.err, r.short, r.free, <<>>)
                      ELSE delazyEach(t, r.free, Tail(specs), Append(newWraps, r.node)))

\* elemArrayToWraps appending every element to the first one
RECURSIVE elemArrayToWraps_appendsToFirst(_, _, _)
elemArrayToWraps_appendsToFirst(t, elems, i) ==
  IF ~(i < Len(elems)) THEN Ok(t)
  ELSE IF At(elems, 0) \notin Nodes \/ At(elems, i) \notin Nodes THEN Fail(t)
  ELSE Then(appendChild(t, At(elems, 0), At(elems, i)),
            LAMBDA t1 : elemArrayToWraps_appendsToFirst(t1, elems, i + 1))

\* elemArrayToWraps, the loop from i: elems[i - 1].appendChild(elems[i]);
\* a TypeError when one of the two is undefined
RECURSIVE elemArrayToWraps(_, _, _)
elemArrayToWraps(t, elems, i) ==
  IF ~(i < Len(elems)) THEN Ok(t)
  ELSE IF At(elems, i - 1) \notin Nodes \/ At(elems, i) \notin Nodes THEN Fail(t)
  ELSE Then(appendChild(t, At(elems, i - 1), At(elems, i)),
            LAMBDA t1 : elemArrayToWraps(t1, elems, i + 1))

\* a wrap specification: a node, a function given by the array it returns
\* for any template, an array of lazy nodes, or a single template string
WrapNode(n) == [type |-> "node", node |-> n, items |-> <<>>, str |-> ""]

WrapFunction(items) == [type |-> "function", node |-> Null, items |-> items, str |-> ""]

WrapArray(items) == [type |-> "array", node |-> Null, items |-> items, str |-> ""]

WrapString(str) == [type |-> "string", node |-> Null, items |-> <<>>, str |-> str]

\* lines 158-161: an array of templateWraps.length undefined entries;
\* delazyNode(wrapSpec) is called once for each and what it returns is
\* dropped
RECURSIVE replicate(_, _, _, _, _)
replicate(t, free, str, length, newWraps) ==
  IF length = 0 THEN Wraps(t, FALSE, FALSE, free, newWraps)
  ELSE Let(delazyString(free, str),
           LAMBDA r : IF r.err \/ r.short THEN Wraps(t, r.err, r.short, r.free, <<>>)
                      ELSE replicate(t, r.free, str, length - 1, Append(newWraps, Undef)))

\* delazyWraps(wrapSpec, templateWraps)
delazyWraps(t, free, wrapSpec, templateWraps) ==
  IF wrapSpec.type = "node" THEN Wraps(t, TRUE, FALSE, free, <<>>)
  ELSE Let(IF wrapSpec.type \in {"function", "array"}
           THEN delazyEach(t, free, wrapSpec.items, <<>>)
           ELSE replicate(t, free, wrapSpec.str, Len(templateWraps), <<>>),
           LAMBDA r : IF r.err \/ r.short THEN r
                      ELSE Let(elemArrayToWraps(t, r.wraps, 1),
                               LAMBDA a : Wraps(a.t, a.err, FALSE, r.free,
                                                IF a.err THEN <<>> ELSE r.wraps)))

\* WrapChain.fromLazy(spec, lazyArg), lazyArg the nodes of a chain:
\* new WrapChain(delazyWraps(spec, lazyArg.nodes))
fromLazy(t, free, spec, lazyArg) ==
  Let(delazyWraps(t, free, spec, lazyArg),
      LAMBDA r : IF r.err \/ r.short THEN r
                 ELSE IF WrapChain_constructor(r.t, r.wraps).err
                 THEN Wraps(r.t, TRUE, FALSE, r.free, <<>>)
                 ELSE r)

(***************************************************************************)
(* selectNodes for string selectors: '#text' walks a NodeIterator over the *)
(* text nodes from root (root included), a tag name is querySelectorAll,   *)
(* the matching descendants of root; both in document order.               *)
(***************************************************************************)
RECURSIVE Preorder(_, _)
RECURSIVE PreorderAll(_, _)
Preorder(t, n) == <<n>> \o PreorderAll(t, t[n])
PreorderAll(t, ns) ==
  IF ns = <<>> THEN <<>> ELSE Preorder(t, Head(ns)) \o PreorderAll(t, Tail(ns))

selectNodes(t, root, selector) ==
  IF selector = "#text"
  THEN SelectSeq(Preorder(t, root), LAMBDA n : kind[n] = "text")
  ELSE SelectSeq(PreorderAll(t, t[root]), LAMBDA n : kind[n] = selector)

(***************************************************************************)
(* SantiOperations: STANDARD maps an operation name to its implementation; *)
(* Configured(impl, arg, t, node) is operation(arg)(node) run on tree t.   *)
(***************************************************************************)
StandardNames == {"remove", "unwrap"}

STANDARD == [name \in StandardNames |-> name]

STANDARD_remove(t, node) ==
  IF isChildNode(t, node) THEN Ok(remove(t, node)) ELSE Ok(t)

\* the unwrap operation detaching the node with its children
STANDARD_unwrap_detaches(t, node) == Ok(remove(t, node))

STANDARD_unwrap(t, node) == unwrap(t, node, node)

\* replaceWraps({direction, replacement})(node) and
\* wrapWraps({direction, replacement})(node)
STANDARD_replaceWraps(t, free, node, direction, replacement) ==
  LET oldWraps == WrapChain_fromNode(t, node, direction, [def |-> FALSE, s |-> {}])
  IN IF oldWraps.err THEN Wraps(t, TRUE, FALSE, free, <<>>)
     ELSE Let(fromLazy(t, free, replacement, oldWraps.nodes),
              LAMBDA newWraps :
                IF newWraps.err \/ newWraps.short THEN newWraps
                ELSE Let(swapWith(newWraps.t, oldWraps.nodes, AsChain(newWraps.wraps)),
                         LAMBDA r : Wraps(r.t, r.err, FALSE, newWraps.free,
                                          newWraps.wraps)))

STANDARD_wrapWraps(t, free, node, direction, replacement) ==
  LET oldWraps == WrapChain_fromNode(t, node, direction, [def |-> FALSE, s |-> {}])
  IN IF oldWraps.err THEN Wraps(t, TRUE, FALSE, free, <<>>)
     ELSE Let(fromLazy(t, free, replacement, oldWraps.nodes),
              LAMBDA newWraps :
                IF newWraps.err \/ newWraps.short THEN newWraps
                ELSE Let(WrapChain_wrap(newWraps.t, newWraps.wraps,
                                        AsChain(oldWraps.nodes)),
                         LAMBDA r : Wraps(r.t, r.err, FALSE, newWraps.free,
                                          newWraps.wraps)))

\* rule.arg: undefined, or a callback given by what it does to a node
NoArg == "undefined"

Callbacks == {"node => node.remove()"}

Callback(arg, t, node) == Ok(remove(t, node))

\* this.operations is a plain object (Santi.ts line 20): a name it does not
\* hold is looked up in Object.prototype, two of whose properties are here
ObjectPrototype ==
  ("constructor" :> "Object") @@ ("toString" :> "Object.prototype.toString")

\* this.operations[operationName], "undefined" when no object of the
\* prototype chain has the property
Property(operations, operationName) ==
  IF operationName \in DOMAIN operations THEN operations[operationName]
  ELSE IF operationName \in DOMAIN ObjectPrototype THEN ObjectPrototype[operationName]
  ELSE "undefined"

\* Object.assign(target, source): target with the properties of source
\* assigned over its own; target is the object returned
ObjectAssign(target, source) ==
  [name \in DOMAIN target \cup DOMAIN source |->
     IF name \in DOMAIN source THEN source[name] ELSE target[name]]

\* the object literal {}
EmptyObject == [name \in {} |-> ""]

\* a constructor that assigns the extra operations into the standard
\* library itself and keeps it as this.operations
Santi_constructor_assignsIntoStandard(standard, extraOperations) ==
  [operations |-> ObjectAssign(standard, extraOperations),
   STANDARD |-> ObjectAssign(standard, extraOperations)]

\* new Santi(ruleset, extraOperations), line 20: this.operations of the
\* instance and the standard library as the call leaves it, standard being
\* the library as the call finds it
Santi_constructor(standard, extraOperations) ==
  [operations |-> ObjectAssign(ObjectAssign(EmptyObject, standard), extraOperations),
   STANDARD |-> standard]

\* whether operation(rule.arg) is a function: a standard operation returns
\* one, Object(arg) is arg itself when arg is a function and an object that
\* cannot be called otherwise, toString(arg) is a string
IsFunction(impl, arg) ==
  CASE impl \in StandardNames -> TRUE
    [] impl = "Object" -> arg \in Callbacks
    [] impl = "Object.prototype.toString" -> FALSE

Configured(impl, arg, t, node) ==
  CASE impl = "remove" -> STANDARD_remove(t, node)
    [] impl = "unwrap" -> STANDARD_unwrap(t, node)
    [] impl = "Object" -> Callback(arg, t, node)

(***************************************************************************)
(* Santi.execute.  A ruleset entry is [nested |-> TRUE, rules] for an      *)
(* array, else a rule [nested |-> FALSE, select, defaultSelect, onlyIf,    *)
(* except, op, arg]; "" is an absent string property, a predicate is       *)
(* [def, s]: absent when ~def, else true exactly of the nodes in s.  A     *)
(* selection is [def, nodes], undefined when ~def.  The run is             *)
(* [t, err, cur, trace]; trace lists what each rule did.                   *)
(***************************************************************************)
Undefined == [def |-> FALSE, nodes |-> <<>>]
Defined(nodes) == [def |-> TRUE, nodes |-> nodes]

Event(ev, raw, sel, node) == [ev |-> ev, raw |-> raw, sel |-> sel, node |-> node]

Throw(s) == [s EXCEPT !.err = TRUE, !.trace = Append(@, Event("throw", <<>>, <<>>, Null))]

\* lines 62-72: the filter loop over rawSelection
FilterSelection(rule, rawSelection) ==
  LET allowed(node) == ~rule.onlyIf.def \/ node \in rule.onlyIf.s
      rejected(node) == ~rule.except.def \/ node \in rule.except.s
  IN SelectSeq(rawSelection, LAMBDA node : allowed(node) /\ ~rejected(node))

\* ApplyAll walking the selection from its last node to its first
RECURSIVE ApplyAll_lastFirst(_, _, _, _)
ApplyAll_lastFirst(impl, arg, s, nodes) ==
  IF nodes = <<>> THEN s
  ELSE IF ~IsFunction(impl, arg) THEN Throw(s)
  ELSE LET Applied(r) ==
             [s EXCEPT !.t = r.t,
                       !.trace = Append(@, Event("apply", <<>>, <<>>, Last(nodes)))]
           Rest(s1) == ApplyAll_lastFirst(impl, arg, s1, SubSeq(nodes, 1, Len(nodes) - 1))
       IN Let(Configured(impl, arg, s.t, Last(nodes)),
              LAMBDA r : IF r.err THEN Throw(Applied(r)) ELSE Let(Applied(r), Rest))

\* lines 103-106: configuredOp(node) for each node of currentSelection;
\* calling a configuredOp that is not a function throws a TypeError
RECURSIVE ApplyAll(_, _, _, _)
ApplyAll(impl, arg, s, nodes) ==
  IF nodes = <<>> THEN s
  ELSE IF ~IsFunction(impl, arg) THEN Throw(s)
  ELSE LET Applied(r) ==
             [s EXCEPT !.t = r.t,
                       !.trace = Append(@, Event("apply", <<>>, <<>>, Head(nodes)))]
           Rest(s1) == ApplyAll(impl, arg, s1, Tail(nodes))
       IN Let(Configured(impl, arg, s.t, Head(nodes)),
              LAMBDA r : IF r.err THEN Throw(Applied(r)) ELSE Let(Applied(r), Rest))

\* RuleStep with defaultSelect evaluated whenever the rule has one and no
\* select, a selection being carried or not
RuleStep_defaultSelectFirst(operations, s, root, rule) ==
  LET hasRaw == rule.select # "" \/ s.cur.def \/ rule.defaultSelect # ""
      fresh == rule.select # "" \/ ~s.cur.def
      rawSelection ==
        IF rule.select # "" THEN selectNodes(s.t, root, rule.select)
        ELSE IF ~s.cur.def \/ rule.defaultSelect # ""
        THEN selectNodes(s.t, root, rule.defaultSelect)
        ELSE s.cur.nodes
      ruleHasFilters == rule.onlyIf.def \/ rule.except.def
      selectionChanged == ruleHasFilters \/ fresh
      currentSelection ==
        IF ruleHasFilters THEN FilterSelection(rule, rawSelection)
        ELSE rawSelection
      operation == Property(operations, rule.op)
      s1 == [s EXCEPT !.cur = Defined(currentSelection),
                      !.trace = Append(@, Event(IF ruleHasFilters THEN "filter"
                                                ELSE IF fresh THEN "copy" ELSE "carry",
                                                rawSelection, currentSelection, Null))]
  IN IF ~hasRaw THEN Throw(s)
     ELSE IF rule.op = "" THEN (IF selectionChanged THEN s1 ELSE Throw(s1))
     ELSE IF operation = "undefined" THEN Throw(s1)
     ELSE Let(s1, LAMBDA s2 : ApplyAll(operation, rule.arg, s2, s2.cur.nodes))

\* RuleStep with a rule without op never throwing
RuleStep_noOpContinues(operations, s, root, rule) ==
  LET hasRaw == rule.select # "" \/ s.cur.def \/ rule.defaultSelect # ""
      fresh == rule.select # "" \/ ~s.cur.def
      rawSelection ==
        IF rule.select # "" THEN selectNodes(s.t, root, rule.select)
        ELSE IF ~s.cur.def THEN selectNodes(s.t, root, rule.defaultSelect)
        ELSE s.cur.nodes
      ruleHasFilters == rule.onlyIf.def \/ rule.except.def
      selectionChanged == ruleHasFilters \/ fresh
      currentSelection ==
        IF ruleHasFilters THEN FilterSelection(rule, rawSelection)
        ELSE rawSelection
      operation == Property(operations, rule.op)
      s1 == [s EXCEPT !.cur = Defined(currentSelection),
                      !.trace = Append(@, Event(IF ruleHasFilters THEN "filter"
                                                ELSE IF fresh THEN "copy" ELSE "carry",
                                                rawSelection, currentSelection, Null))]
  IN IF ~hasRaw THEN Throw(s)
     ELSE IF rule.op = "" THEN s1
     ELSE IF operation = "undefined" THEN Throw(s1)
     ELSE Let(s1, LAMBDA s2 : ApplyAll(operation, rule.arg, s2, s2.cur.nodes))

\* lines 40-106: one rule that is not a nested ruleset
RuleStep(operations, s, root, rule) ==
  LET hasRaw == rule.select # "" \/ s.cur.def \/ rule.defaultSelect # ""
      fresh == rule.select # "" \/ ~s.cur.def
      rawSelection ==
        IF rule.select # "" THEN selectNodes(s.t, root, rule.select)
        ELSE IF ~s.cur.def THEN selectNodes(s.t, root, rule.defaultSelect)
        ELSE s.cur.nodes
      ruleHasFilters == rule.onlyIf.def \/ rule.except.def
      selectionChanged == ruleHasFilters \/ fresh
      currentSelection ==
        IF ruleHasFilters THEN FilterSelection(rule, rawSelection)
        ELSE rawSelection
      operation == Property(operations, rule.op)
      s1 == [s EXCEPT !.cur = Defined(currentSelection),
                      !.trace = Append(@, Event(IF ruleHasFilters THEN "filter"
                                                ELSE IF fresh THEN "copy" ELSE "carry",
                                                rawSelection, currentSelection, Null))]
  IN IF ~hasRaw THEN Throw(s)
     ELSE IF rule.op = "" THEN (IF selectionChanged THEN s1 ELSE Throw(s1))
     ELSE IF operation = "undefined" THEN Throw(s1)
     ELSE Let(s1, LAMBDA s2 : ApplyAll(operation, rule.arg, s2, s2.cur.nodes))

RECURSIVE ExecuteFrom(_, _, _, _, _)

\* ExecuteFrom with a nested ruleset started from no selection
ExecuteFrom_nestedUnseeded(operations, s, root, ruleset, i) ==
  IF s.err \/ i > Len(ruleset) THEN s
  ELSE LET rule == ruleset[i]
           Continue(s1) == ExecuteFrom(operations, s1, root, ruleset, i + 1)
       IN IF rule.nested
          THEN Let(ExecuteFrom(operations, [s EXCEPT !.cur = Undefined], root, rule.rules, 1),
                   LAMBDA r : Continue([r EXCEPT !.cur = s.cur]))
          ELSE Let(RuleStep(operations, s, root, rule), Continue)

\* ExecuteFrom with the selection a nested ruleset ends with handed back to
\* the enclosing ruleset
ExecuteFrom_nestedPropagates(operations, s, root, ruleset, i) ==
  IF s.err \/ i > Len(ruleset) THEN s
  ELSE LET rule == ruleset[i]
           Continue(s1) == ExecuteFrom(operations, s1, root, ruleset, i + 1)
       IN IF rule.nested
          THEN Let(ExecuteFrom(operations, s, root, rule.rules, 1),
                   LAMBDA r : Continue(r))
          ELSE Let(RuleStep(operations, s, root, rule), Continue)

\* lines 33-107: the loop over the ruleset from entry i on; line 37 runs a
\* nested ruleset on the current selection and keeps that selection
ExecuteFrom(operations, s, root, ruleset, i) ==
  IF s.err \/ i > Len(ruleset) THEN s
  ELSE LET rule == ruleset[i]
           Continue(s1) == ExecuteFrom(operations, s1, root, ruleset, i + 1)
       IN IF rule.nested
          THEN Let(ExecuteFrom(operations, s, root, rule.rules, 1),
                   LAMBDA r : Continue([r EXCEPT !.cur = s.cur]))
          ELSE Let(RuleStep(operations, s, root, rule), Continue)

execute(operations, t, root, ruleset, selection) ==
  Let([t |-> t, err |-> FALSE, cur |-> selection, trace |-> <<>>],
      LAMBDA s : ExecuteFrom(operations, s, root, ruleset, 1))

(***************************************************************************)
(* Inputs: the arrays of at most MaxChainLen nodes that satisfy the chain  *)
(* invariant in t, the empty array included.                               *)
(***************************************************************************)
RECURSIVE IsChainFrom(_, _, _)
IsChainFrom(t, n, k) ==
  k = 1 \/ (Len(t[n]) = 1 /\ IsChainFrom(t, t[n][1], k - 1))

RECURSIVE ChainFrom(_, _, _)
ChainFrom(t, n, k) ==
  IF k = 1 THEN <<n>> ELSE <<n>> \o ChainFrom(t, t[n][1], k - 1)

Chains(t) ==
  {<<>>} \cup {ChainFrom(t, x[1], x[2]) :
                 x \in {y \in Nodes \X (1..MaxChainLen) : IsChainFrom(t, y[1], y[2])}}

NodeOrChains(t) == {AsChain(c) : c \in Chains(t)} \cup {AsNode(n) : n \in Nodes}

Disjoint(c1, c2) == Range(c1) \cap Range(c2) = {}

(***************************************************************************)
(* Initial states: every forest in which a parent has a smaller number     *)
(* than its children and siblings are in increasing order.                 *)
(***************************************************************************)
ParentMaps == {f \in [Nodes -> Nodes \cup {Null}] : \A n \in Nodes : f[n] < n}

RECURSIVE Ascending(_)
Ascending(S) ==
  IF S = {} THEN <<>>
  ELSE LET m == CHOOSE x \in S : \A y \in S : x <= y
       IN <<m>> \o Ascending(S \ {m})

TreeOf(f) == [p \in Nodes |-> Ascending({n \in Nodes : f[n] = p})]

\* text nodes are leaves; a DocumentFragment has no parent
KindsFit(t, k) ==
  \A n \in Nodes :
    /\ k[n] = "text" => t[n] = <<>>
    /\ k[n] = "frag" => parentNode(t, n) = Null

DomKinds ==
  {k \in [Nodes -> {"frag", "div", "text"}] :
     /\ k[1] \in {"frag", "div"}
     /\ \A n \in Nodes \ {1, NumNodes} : k[n] = "div"
     /\ NumNodes > 1 => k[NumNodes] \in {"div", "text"}}

Init ==
  /\ \E f \in ParentMaps : tree = TreeOf(f)
  /\ kind \in DomKinds
  /\ KindsFit(tree, kind)
  /\ hist = <<>>

(***************************************************************************)
(* Actions: one call of an exported operation.  hist records the calls     *)
(* made so far with the tree each started from.  A second call is explored *)
(* only as the repetition or the inverse of the first.                     *)
(***************************************************************************)
CallOut(op, args, r, out) ==
  /\ tree' = r.t
  /\ hist' = Append(hist, [op |-> op, args |-> args, pre |-> tree,
                           err |-> r.err, out |-> out])
  /\ UNCHANGED kind

Call(op, args, r) == CallOut(op, args, r, <<>>)

First == hist = <<>>

\* the previous call was op and one more call is within the bound
Again(op) ==
  /\ Len(hist) \in 1..(MaxOps - 1)
  /\ Last(hist).op = op

SwapNodes ==
  \/ /\ First
     /\ \E a, b \in Nodes : Call("swapNodes", <<a, b>>, swapNodes(tree, a, b))
  \/ /\ Again("swapNodes")
     /\ LET a == Last(hist).args[1]
            b == Last(hist).args[2]
        IN Call("swapNodes", <<a, b>>, swapNodes(tree, a, b))

SwapWraps ==
  \/ /\ First
     /\ \E c1, c2 \in Chains(tree) :
          Call("swapWraps", <<c1, c2>>, swapWraps(tree, c1, c2))
  \/ /\ Again("swapWraps")
     /\ LET c1 == Last(hist).args[1]
            c2 == Last(hist).args[2]
        IN Call("swapWraps", <<c1, c2>>, swapWraps(tree, c1, c2))

ChainSwapWith ==
  \/ /\ First
     /\ \E c1 \in Chains(tree), x \in NodeOrChains(tree) :
          Call("swapWith", <<c1, x>>, swapWith(tree, c1, x))
  \/ /\ Again("swapWith")
     /\ LET c1 == Last(hist).args[1]
            x == Last(hist).args[2]
        IN Call("swapWith", <<c1, x>>, swapWith(tree, c1, x))

NextSwap == SwapNodes \/ SwapWraps \/ ChainSwapWith

SpecSwap == Init /\ [][NextSwap]_vars

\* the wrapper chain and the wrapped node of a recorded wrap call
WrapperOf(h) == IF h.op = "wrap" THEN <<h.args[2]>> ELSE h.args[1]

WrappedOf(h) == IF h.op = "wrap" THEN h.args[1] ELSE getOuterNode(h.args[2])

\* unwrap(outer, inner) on the two ends of a chain (inner = outer included),
\* or on the wrapper chain of the wrap call just made
Unwrap ==
  \/ /\ First
     /\ \E c \in Chains(tree) \ {<<>>} :
          Call("unwrap", <<c[1], Last(c)>>, unwrap(tree, c[1], Last(c)))
  \/ /\ Again("wrap") \/ Again("chainWrap")
     /\ WrapperOf(Last(hist)) # <<>>
     /\ LET c == WrapperOf(Last(hist))
        IN Call("unwrap", <<c[1], Last(c)>>, unwrap(tree, c[1], Last(c)))

Wrap ==
  /\ First
  /\ \E node, wrapper \in Nodes :
       Call("wrap", <<node, wrapper>>, wrap(tree, node, wrapper))

ChainWrap ==
  /\ First
  /\ \E c \in Chains(tree), x \in NodeOrChains(tree) :
       Call("chainWrap", <<c, x>>, WrapChain_wrap(tree, c, x))

NextWrap == Unwrap \/ Wrap \/ ChainWrap

SpecWrap == Init /\ [][NextWrap]_vars

(***************************************************************************)
(* Building and discovering chains.  Arrays are all the arrays of at most  *)
(* MaxChainLen + 1 nodes, chains or not.                                   *)
(***************************************************************************)
Arrays == UNION {[1..n -> Nodes] : n \in 0..(MaxChainLen + 1)}

Directions ==
  {NoDirection} \cup {Dir(str) : str \in {"self", "around", "within", "sideways"}}
    \cup {Dirs(arr) : arr \in {<<>>, <<"around", "self">>, <<"self", "within">>,
                                <<"around", "self", "within">>, <<"within", "around">>,
                                <<"self", "sideways">>}}

\* new WrapChain(wraps); out holds the error's index and, of the chain
\* built, this.nodes and the getters outerNode and innerNode
Construct ==
  /\ First
  /\ \E wraps \in Arrays :
       LET c == WrapChain_constructor(tree, wraps)
       IN CallOut("new", <<wraps>>, [t |-> tree, err |-> c.err],
                  [index |-> c.index, nodes |-> c.nodes,
                   outerNode |-> outerNode(c.nodes), innerNode |-> innerNode(c.nodes)])

ChainAppendChild ==
  /\ First
  /\ \E c \in Chains(tree), x \in NodeOrChains(tree) :
       Call("appendChild", <<c, x>>, WrapChain_appendChild(tree, c, x))

GetWrapsAround ==
  /\ First
  /\ \E node \in Nodes :
       CallOut("getWrapsAround", <<node>>, Ok(tree), getWrapsAround(tree, node))

WrapChainGetWrapsAround ==
  /\ First
  /\ \E node \in Nodes :
       CallOut("WrapChain.getWrapsAround", <<node>>, Ok(tree),
               WrapChain_getWrapsAround(tree, node))

GetWrapsWithin ==
  /\ First
  /\ \E node \in Nodes :
       CallOut("getWrapsWithin", <<node>>, Ok(tree), getWrapsWithin(tree, node))

WrapChainGetWrapsWithin ==
  /\ First
  /\ \E node \in Nodes :
       CallOut("WrapChain.getWrapsWithin", <<node>>, Ok(tree),
               WrapChain_getWrapsWithin(tree, node))

GetWrapsDirection ==
  /\ First
  /\ \E node \in Nodes, direction \in Directions :
       LET r == getWrapsDirection(tree, node, direction)
       IN CallOut("getWrapsDirection", <<node, direction>>,
                  [t |-> tree, err |-> r.err], r.wraps)

WrapChainGetWraps ==
  /\ First
  /\ \E node \in Nodes, direction \in Directions :
       LET r == WrapChain_getWraps(tree, node, direction, [def |-> FALSE, s |-> {}])
       IN CallOut("WrapChain.getWraps", <<node, direction>>,
                  [t |-> tree, err |-> r.err], r.wraps)

\* options.trim: absent, or a predicate true exactly of the nodes in s
NoTrim == [def |-> FALSE, s |-> {}]

Trims == {[def |-> TRUE, s |-> s] : s \in SUBSET Nodes}

AroundSelfWithin == Dirs(<<"around", "self", "within">>)

\* the directions taken together with a trim
TrimDirections == {AroundSelfWithin, Dir("within")}

\* WrapChain.getWraps(node, direction, {trim})
WrapChainGetWrapsTrim ==
  /\ First
  /\ \E node \in Nodes, direction \in TrimDirections, trim \in Trims :
       LET r == WrapChain_getWraps(tree, node, direction, trim)
       IN CallOut("WrapChain.getWraps trim", <<node, direction, trim>>,
                  [t |-> tree, err |-> r.err], r.wraps)

\* WrapChain.fromNode(node, direction, options); out holds the error's
\* index and this.nodes of the chain built
FromNode ==
  /\ First
  /\ \E node \in Nodes :
       \E o \in ({AroundSelfWithin} \X (Trims \cup {NoTrim}))
                  \cup (Directions \X {NoTrim}) :
         LET c == WrapChain_fromNode(tree, node, o[1], o[2])
         IN CallOut("WrapChain.fromNode", <<node, o[1], o[2]>>,
                    [t |-> tree, err |-> c.err],
                    [index |-> c.index, nodes |-> c.nodes])

NextChain ==
  \/ Construct
  \/ ChainAppendChild
  \/ GetWrapsAround
  \/ WrapChainGetWrapsAround
  \/ GetWrapsWithin
  \/ WrapChainGetWrapsWithin
  \/ GetWrapsDirection
  \/ WrapChainGetWraps

SpecChain == Init /\ [][NextChain]_vars

NextTrim == WrapChainGetWrapsTrim \/ FromNode

SpecTrim == Init /\ [][NextTrim]_vars

(***************************************************************************)
(* Running the interpreter: the document is the tree under node 1, a       *)
(* fragment or an element holding spans and text nodes.                    *)
(***************************************************************************)
Root == 1

ExecKinds ==
  {k \in [Nodes -> {"frag", "div", "span", "text"}] :
     /\ k[Root] \in {"frag", "div"}
     /\ \A n \in Nodes \ {Root} : k[n] \in {"span", "text"}}

InitExec ==
  /\ \E f \in ParentMaps :
       /\ \A n \in Nodes \ {Root} : f[n] # Null
       /\ tree = TreeOf(f)
  /\ kind \in ExecKinds
  /\ KindsFit(tree, kind)
  /\ hist = <<>>

Absent == [def |-> FALSE, s |-> {}]

PredSets == {{m \in Nodes : m >= n} : n \in 1..(NumNodes + 1)} \cup {{n} : n \in Nodes}

Preds == {Absent} \cup {[def |-> TRUE, s |-> S] : S \in PredSets}

Rule(select, onlyIf, except, op) ==
  [nested |-> FALSE, select |-> select, defaultSelect |-> "",
   onlyIf |-> onlyIf, except |-> except, op |-> op, arg |-> NoArg]

\* one rule that selects, filters and does nothing else
FilterRulesets ==
  {<<Rule(sel, p, e, "")>> : sel \in {"#text", "span"}, p \in Preds, e \in Preds}

\* one rule that removes what it selects, filtered by onlyIf only
RemoveRulesets ==
  {<<Rule(sel, p, Absent, "remove")>> : sel \in {"#text", "span"}, p \in Preds}

\* a rule without filters
SelRule(select, defaultSelect, op) ==
  [Rule(select, Absent, Absent, op) EXCEPT !.defaultSelect = defaultSelect]

Nested(rules) == [nested |-> TRUE, rules |-> rules]

Selectors == {"span", "#text"}

\* "purge" is the name of no operation and of no property of an object
SelRules ==
  {SelRule(sel, dsel, op) : sel \in Selectors \cup {""}, dsel \in {"", "#text"},
                            op \in {"", "remove", "unwrap", "purge"}}

\* the first of two rules: it selects, and removes or not, or takes its
\* defaultSelect
FirstRules ==
  {SelRule(sel, "", op) : sel \in Selectors, op \in {"", "remove"}}
    \cup {SelRule("", "#text", "")}

\* one or two rules that select, or not, and operate, or not
SelectionRulesets ==
  {<<r1>> : r1 \in SelRules}
    \cup {<<r1, r2>> : r1 \in FirstRules, r2 \in {r \in SelRules : r.op # "unwrap"}}

\* one rule whose op names a property that objects inherit
InheritedRulesets ==
  {<<[SelRule(sel, "", op) EXCEPT !.arg = arg]>> :
     sel \in Selectors, op \in DOMAIN ObjectPrototype, arg \in Callbacks \cup {NoArg}}

\* what a nested ruleset holds: a rule that selects, or not, and operates,
\* or not; a defaultSelect; a filter; a ruleset nested once more
InnerRulesets ==
  {<<SelRule(sel, "", op)>> : sel \in Selectors \cup {""}, op \in {"", "remove", "unwrap"}}
    \cup {<<SelRule("", "#text", "")>>}
    \cup {<<Rule("span", Absent, [def |-> TRUE, s |-> {n}], "")>> : n \in Nodes \ {Root}}
    \cup {<<Nested(<<SelRule(sel, "", "")>>)>> : sel \in Selectors}

\* the rule after a nested ruleset: no select, an operation
LastRules ==
  {SelRule("", "", op) : op \in {"remove", "unwrap"}} \cup {SelRule("", "span", "remove")}

\* a nested ruleset, after a rule that selects or first in the ruleset,
\* followed by a rule that operates or last in the ruleset
NestedRulesets ==
  {<<Nested(inner), r3>> : inner \in InnerRulesets, r3 \in LastRules}
    \cup {<<SelRule(sel, "", ""), Nested(inner), r3>> :
            sel \in Selectors, inner \in InnerRulesets, r3 \in LastRules}
    \cup {<<SelRule(sel, "", ""), Nested(inner)>> :
            sel \in Selectors, inner \in InnerRulesets}

Rulesets == FilterRulesets \cup RemoveRulesets

\* the spans are selected, then unwrapped
UnwrapRulesets == {<<SelRule("span", "", ""), SelRule("", "", "unwrap")>>}

\* the spans are selected, a nested ruleset removes all of them but one,
\* and the spans are unwrapped
AbortRulesets ==
  {<<SelRule("span", "", ""),
     Nested(<<Rule("", Absent, [def |-> TRUE, s |-> {n}], "remove")>>),
     SelRule("", "", "unwrap")>> : n \in Nodes \ {Root}}

RuleLists ==
  SelectionRulesets \cup InheritedRulesets \cup NestedRulesets \cup UnwrapRulesets
    \cup AbortRulesets

Execute ==
  /\ First
  /\ \E ruleset \in Rulesets :
    LET r == execute(STANDARD, tree, Root, ruleset, Undefined)
    IN CallOut("execute", <<Root, ruleset>>, r, r.trace)

NextExec == Execute

SpecExec == InitExec /\ [][NextExec]_vars

\* execute on a list of rules and nested rulesets
ExecuteRules ==
  /\ First
  /\ \E ruleset \in RuleLists :
    LET r == execute(STANDARD, tree, Root, ruleset, Undefined)
    IN CallOut("execute", <<Root, ruleset>>, r, r.trace)

NextRules == ExecuteRules

SpecRules == InitExec /\ [][NextRules]_vars

\* the tree the i-th recorded call left behind
After(i) == IF i = Len(hist) THEN tree ELSE hist[i + 1].pre

(***************************************************************************)
(* Claims about swapping                                                   *)
(***************************************************************************)
\* the tree in which a and b have exchanged positions and child lists
Exchanged(pre, a, b) ==
  LET sw(n) == IF n = a THEN b ELSE IF n = b THEN a ELSE n
  IN [n \in Nodes |-> [i \in DOMAIN pre[sw(n)] |-> sw(pre[sw(n)][i])]]

\* an element that is parentless or the child of an element
PlainElement(t, n) ==
  IsElement(n) /\ (parentNode(t, n) = Null \/ IsElement(parentNode(t, n)))

\* C3: swapNodes(a, b) for two distinct nodes, neither an ancestor of the
\* other, exchanges the positions and the child lists of a and b, whatever
\* their relative placement (stated here for elements under elements).
C3_SwapNodesExchanges ==
  (/\ Len(hist) = 1
   /\ hist[1].op = "swapNodes"
   /\ hist[1].args[1] # hist[1].args[2]
   /\ PlainElement(hist[1].pre, hist[1].args[1])
   /\ PlainElement(hist[1].pre, hist[1].args[2])
   /\ ~IsInclusiveAncestor(hist[1].pre, hist[1].args[1], hist[1].args[2])
   /\ ~IsInclusiveAncestor(hist[1].pre, hist[1].args[2], hist[1].args[1]))
  => /\ ~hist[1].err
     /\ tree = Exchanged(hist[1].pre, hist[1].args[1], hist[1].args[2])

\* two non-empty disjoint chains of plain elements, neither inside the other
SwappableChains(t, c1, c2) ==
  /\ c1 # <<>> /\ c2 # <<>>
  /\ Disjoint(c1, c2)
  /\ \A n \in Range(c1) \cup Range(c2) : PlainElement(t, n)
  /\ ~IsInclusiveAncestor(t, c1[1], c2[1])
  /\ ~IsInclusiveAncestor(t, c2[1], c1[1])

\* C4: swapping chain X with chain Y and then X with Y again restores every
\* node's parent and ordered child list.
C4_SwapTwiceRestores ==
  (/\ Len(hist) = 2
   /\ hist[1].op = "swapWraps"
   /\ hist[2].op = "swapWraps"
   /\ hist[2].args = hist[1].args
   /\ SwappableChains(hist[1].pre, hist[1].args[1], hist[1].args[2]))
  => tree = hist[1].pre

\* the non-empty side of a swap with the empty chain, <<>> if there is none
NonEmptySide(h) ==
  IF h.op = "swapWraps"
  THEN (IF h.args[1] = <<>> THEN h.args[2]
        ELSE IF h.args[2] = <<>> THEN h.args[1] ELSE <<>>)
  ELSE IF h.op = "swapWith" /\ ~h.args[2].isNode
  THEN (IF h.args[1] = <<>> THEN h.args[2].nodes
        ELSE IF h.args[2].nodes = <<>> THEN h.args[1] ELSE <<>>)
  ELSE <<>>

\* C5: swapping a non-empty chain with the empty chain, in either order and
\* through either swapWraps or WrapChain.swapWith, leaves the tree that
\* unwrap(chain.outer, chain.inner) leaves.
C5_SwapWithEmptyIsUnwrap ==
  (Len(hist) = 1 /\ NonEmptySide(hist[1]) # <<>>)
  => LET c == NonEmptySide(hist[1])
     IN tree = unwrap(hist[1].pre, c[1], Last(c)).t

\* C6: a swap whose two sides are the identical single node changes nothing.
C6_SelfSwapNoOp ==
  (/\ Len(hist) = 1
   /\ \/ hist[1].op = "swapNodes" /\ hist[1].args[1] = hist[1].args[2]
      \/ /\ hist[1].op = "swapWraps"
         /\ Len(hist[1].args[1]) = 1
         /\ hist[1].args[1] = hist[1].args[2])
  => ~hist[1].err /\ tree = hist[1].pre

(***************************************************************************)
(* Claims about wrap and unwrap                                            *)
(***************************************************************************)
\* the nodes of the chain that runs from outer down to inner
ChainBetween(t, outer, inner) ==
  {n \in Nodes : IsInclusiveAncestor(t, outer, n) /\ IsInclusiveAncestor(t, n, inner)}

UnwrapPromotes(pre, post, outer, inner) ==
  LET parent == parentNode(pre, outer)
      k == IndexOf(pre[parent], outer)
  IN /\ post[parent] = SubSeq(pre[parent], 1, k - 1) \o pre[inner]
                         \o SubSeq(pre[parent], k + 1, Len(pre[parent]))
     /\ post[inner] = <<>>
     /\ parentNode(post, outer) = Null
     /\ \A n \in ChainBetween(pre, outer, inner) : ~Reachable(post, parent, n)
     /\ \A n \in Nodes \ {parent, inner} : post[n] = pre[n]

\* C7: unwrap(outer, inner) on an outer node that has a parent puts the
\* children of inner, in order, where outer was among the parent's children,
\* keeps outer's former siblings in place and removes outer; the chain is
\* then unreachable from the parent and inner is empty.
C7_UnwrapPromotesChildren ==
  \A i \in DOMAIN hist :
    (hist[i].op = "unwrap" /\ parentNode(hist[i].pre, hist[i].args[1]) # Null)
    => /\ ~hist[i].err
       /\ UnwrapPromotes(hist[i].pre, After(i), hist[i].args[1], hist[i].args[2])

C7_Witness ==
  /\ Len(hist) = 1
  /\ hist[1].op = "unwrap"
  /\ hist[1].args[1] # hist[1].args[2]
  /\ parentNode(hist[1].pre, hist[1].args[1]) # Null
  /\ Len(hist[1].pre[parentNode(hist[1].pre, hist[1].args[1])]) >= 2
  /\ hist[1].pre[hist[1].args[2]] # <<>>
  /\ tree # hist[1].pre

\* C8: unwrap(outer, inner) on a parentless outer fails, and nothing has
\* been mutated when it fails.
C8_UnwrapParentlessFails ==
  \A i \in DOMAIN hist :
    (hist[i].op = "unwrap" /\ parentNode(hist[i].pre, hist[i].args[1]) = Null)
    => hist[i].err /\ After(i) = hist[i].pre

C8_Witness ==
  /\ Len(hist) = 1
  /\ hist[1].op = "unwrap"
  /\ parentNode(hist[1].pre, hist[1].args[1]) = Null
  /\ hist[1].pre[hist[1].args[2]] # <<>>
  /\ hist[1].err

\* c is a newly built wrapper chain: elements that hang on nothing and hold
\* nothing but each other
FreshChain(t, c) ==
  /\ c # <<>>
  /\ \A n \in Range(c) : IsElement(n)
  /\ parentNode(t, c[1]) = Null
  /\ t[Last(c)] = <<>>

IsFreshWrap(h) ==
  /\ h.op \in {"wrap", "chainWrap"}
  /\ FreshChain(h.pre, WrapperOf(h))
  /\ WrappedOf(h) # Null
  /\ WrappedOf(h) \notin Range(WrapperOf(h))

\* C9: wrap(node, W) with a fresh wrapper W, followed by
\* unwrap(W.outer, W.inner), restores the tree (stated here for a node that
\* has a parent).
C9_WrapUnwrapRoundTrip ==
  (/\ Len(hist) = 2
   /\ IsFreshWrap(hist[1])
   /\ parentNode(hist[1].pre, WrappedOf(hist[1])) # Null
   /\ hist[2].op = "unwrap")
  => tree = hist[1].pre

\* C10: wrap(node, W) puts W.outer where node was under node's former
\* parent, makes node the sole child of W.inner and leaves node's own
\* children alone.
C10_WrapPlacesWrapper ==
  (Len(hist) >= 1 /\ IsFreshWrap(hist[1]))
  => LET pre == hist[1].pre
         post == After(1)
         w == WrapperOf(hist[1])
         node == WrappedOf(hist[1])
         parent == parentNode(pre, node)
     IN /\ ~hist[1].err
        /\ post[Last(w)] = <<node>>
        /\ post[node] = pre[node]
        /\ parent # Null =>
             post[parent] = [i \in DOMAIN pre[parent] |->
                               IF pre[parent][i] = node THEN w[1] ELSE pre[parent][i]]

(***************************************************************************)
(* Claims about the rule interpreter                                       *)
(***************************************************************************)
\* the filter as specified: kept iff onlyIf is absent or accepts the node,
\* and except is absent or does not reject it
KeptBySpec(rule, raw) ==
  SelectSeq(raw, LAMBDA n : /\ (~rule.onlyIf.def \/ n \in rule.onlyIf.s)
                            /\ (~rule.except.def \/ n \notin rule.except.s))

\* C1: for a rule with at least one of onlyIf/except, the new selection is
\* the raw selection, in order, restricted to the nodes that onlyIf (if
\* present) accepts and except (if present) does not reject.
C1_FilterKeeps ==
  \A i \in DOMAIN hist :
    hist[i].op = "execute" =>
      LET rule == hist[i].args[2][1]
          trace == hist[i].out
      IN (/\ ~rule.nested
          /\ rule.onlyIf.def \/ rule.except.def
          /\ trace # <<>> /\ trace[1].ev = "filter")
         => /\ trace[1].raw = selectNodes(hist[i].pre, Root, rule.select)
            /\ trace[1].sel = KeptBySpec(rule, trace[1].raw)

\* C2: the ruleset [{select: '#text', op: 'remove', onlyIf: P}] detaches
\* exactly the selected nodes that satisfy P: they are unreachable from
\* root afterwards and every other node is as reachable as before.
C2_RemoveOnlyIf ==
  \A i \in DOMAIN hist :
    (/\ hist[i].op = "execute"
     /\ Len(hist[i].args[2]) = 1
     /\ ~hist[i].args[2][1].nested
     /\ hist[i].args[2][1].select = "#text"
     /\ hist[i].args[2][1].op = "remove"
     /\ hist[i].args[2][1].onlyIf.def
     /\ ~hist[i].args[2][1].except.def)
    => LET P == hist[i].args[2][1].onlyIf.s
           selected == Range(selectNodes(hist[i].pre, Root, "#text"))
       IN /\ ~hist[i].err
          /\ \A n \in Nodes :
               Reachable(After(i), Root, n)
                 <=> (Reachable(hist[i].pre, Root, n) /\ ~(n \in selected /\ n \in P))

(***************************************************************************)
(* Claims about building and discovering chains                            *)
(***************************************************************************)
\* the 0-based indexes i < k at which [n0..nk] breaks the chain rule: ni
\* does not have n(i+1) as its one and only child
Breaks(t, wraps) ==
  {i \in 0..(Len(wraps) - 2) : t[wraps[i + 1]] # <<wraps[i + 2]>>}

\* C11: new WrapChain([n0..nk]) succeeds iff every ni with i < k has exactly
\* one child and that child is n(i+1); otherwise it throws an error naming
\* the lowest failing index and builds no chain.
C11_ConstructorValidates ==
  \A i \in DOMAIN hist :
    hist[i].op = "new" =>
      LET wraps == hist[i].args[1]
          breaks == Breaks(hist[i].pre, wraps)
      IN IF breaks = {}
         THEN ~hist[i].err /\ hist[i].out.nodes = wraps
         ELSE /\ hist[i].err
              /\ hist[i].out.index \in breaks
              /\ \A j \in breaks : hist[i].out.index <= j
              /\ hist[i].out.nodes = <<>>

\* an array of three whose first link holds and whose second link is broken
\* by a single child that is not the next node
C11_Witness ==
  /\ Len(hist) = 1
  /\ hist[1].op = "new"
  /\ Len(hist[1].args[1]) = 3
  /\ Len(hist[1].pre[hist[1].args[1][2]]) = 1
  /\ hist[1].err
  /\ hist[1].out.index = 1

\* C12: a chain built from a non-empty array [n0..nk] has outerNode n0 and
\* innerNode nk, and appendChild on it appends to nk.
C12_InnerNodeIsLast ==
  \A i \in DOMAIN hist :
    /\ (hist[i].op = "new" /\ ~hist[i].err /\ hist[i].args[1] # <<>>)
       => /\ hist[i].out.outerNode = hist[i].args[1][1]
          /\ hist[i].out.innerNode = Last(hist[i].args[1])
    /\ (/\ hist[i].op = "appendChild"
        /\ hist[i].args[1] # <<>>
        /\ IsElement(Last(hist[i].args[1]))
        /\ getOuterNode(hist[i].args[2]) # Null
        /\ kind[getOuterNode(hist[i].args[2])] # "frag"
        /\ ~IsInclusiveAncestor(hist[i].pre, getOuterNode(hist[i].args[2]),
                                Last(hist[i].args[1])))
       => /\ ~hist[i].err
          /\ After(i)[Last(hist[i].args[1])] # <<>>
          /\ Last(After(i)[Last(hist[i].args[1])]) = getOuterNode(hist[i].args[2])

\* the k-th ancestor of n, Null beyond the root
RECURSIVE Ancestor(_, _, _)
Ancestor(t, n, k) ==
  IF k = 0 \/ n = Null THEN n ELSE Ancestor(t, parentNode(t, n), k - 1)

\* how many consecutive ancestors of n, from its parent up, have exactly
\* one child
WrapperRun(t, n) ==
  Cardinality({k \in 1..NumNodes :
                 \A j \in 1..k : /\ Ancestor(t, n, j) # Null
                                 /\ Len(t[Ancestor(t, n, j)]) = 1})

\* C13: around(node) is, outside-in, the maximal run of consecutive
\* ancestors from node's parent up that have exactly one child each; so it
\* is empty when node has a sibling or no parent and holds N whenever node
\* is the only child of N.
C13_AroundIsWrapperRun ==
  \A i \in DOMAIN hist :
    hist[i].op \in {"getWrapsAround", "WrapChain.getWrapsAround"} =>
      LET node == hist[i].args[1]
          run == WrapperRun(hist[i].pre, node)
      IN hist[i].out = [k \in 1..run |-> Ancestor(hist[i].pre, node, run + 1 - k)]

\* the call is one of the discovery functions, getWraps and
\* getWrapsDirection taken with the direction 'around' or 'within'
IsDiscovery(h) ==
  \/ h.op \in {"getWrapsAround", "WrapChain.getWrapsAround",
                "getWrapsWithin", "WrapChain.getWrapsWithin"}
  \/ /\ h.op \in {"getWrapsDirection", "WrapChain.getWraps"}
     /\ h.args[2] \in {Dir("around"), Dir("within")}

\* C14: no node with 0 or with 2 or more children is in a chain that a
\* discovery function returns.
C14_OnlySingleChildNodes ==
  \A i \in DOMAIN hist :
    IsDiscovery(hist[i]) =>
      \A n \in Range(hist[i].out) : Len(hist[i].pre[n]) = 1

\* the descent through only children: n's only child, then that one's only
\* child, and so on while the node visited has exactly one child
RECURSIVE OnlyChildRun(_, _)
OnlyChildRun(t, n) ==
  IF Len(t[n]) = 1 THEN <<t[n][1]>> \o OnlyChildRun(t, t[n][1]) ELSE <<>>

\* C15: within(node), of WrapChain and of DOM_UTIL alike, is empty when node
\* has 0 or 2+ children and else is the descent through only children that
\* starts with node's only child.
C15_WithinIsOnlyChildRun ==
  \A i \in DOMAIN hist :
    hist[i].op \in {"getWrapsWithin", "WrapChain.getWrapsWithin"} =>
      hist[i].out = OnlyChildRun(hist[i].pre, hist[i].args[1])

(***************************************************************************)
(* Claims about selections, nested rulesets and dispatch.  The entries of  *)
(* a ruleset run in order, so the run stands before entry k as the run of  *)
(* the entries before k has left it, and the events of the trace from      *)
(* there on are those of entry k and its successors.                       *)
(***************************************************************************)
Flat(ruleset) == \A k \in DOMAIN ruleset : ~ruleset[k].nested

Before(h, k) == execute(STANDARD, h.pre, Root, SubSeq(h.args[2], 1, k - 1), Undefined)

\* the events of h's trace that come after those of the run `before`
EventsAfter(h, before) == SubSeq(h.out, Len(before.trace) + 1, Len(h.out))

Unfiltered(rule) == ~rule.onlyIf.def /\ ~rule.except.def

\* the nodes an operation was applied to, in the order of application
Applied(trace) ==
  LET applies == SelectSeq(trace, LAMBDA e : e.ev = "apply")
  IN [j \in DOMAIN applies |-> applies[j].node]

OnlyThrows(evs) == Len(evs) = 1 /\ evs[1].ev = "throw"

\* C16: a rule with select takes its raw selection from select evaluated
\* against the root; a rule without select uses defaultSelect only while the
\* selection is undefined and otherwise carries the selection forward
\* unchanged; with neither and no selection the rule throws before any
\* operation runs.
C16_SelectionDetermined ==
  \A i \in DOMAIN hist :
    (hist[i].op = "execute" /\ Flat(hist[i].args[2])) =>
      \A k \in DOMAIN hist[i].args[2] :
        LET rule == hist[i].args[2][k]
            before == Before(hist[i], k)
            evs == EventsAfter(hist[i], before)
        IN ~before.err =>
             IF rule.select # ""
             THEN /\ evs # <<>>
                  /\ evs[1].ev \in {"copy", "filter"}
                  /\ evs[1].raw = selectNodes(before.t, Root, rule.select)
                  /\ Unfiltered(rule) => evs[1].sel = evs[1].raw
             ELSE IF before.cur.def
             THEN /\ evs # <<>>
                  /\ evs[1].ev \in {"carry", "filter"}
                  /\ evs[1].raw = before.cur.nodes
                  /\ Unfiltered(rule) => evs[1].sel = before.cur.nodes
             ELSE IF rule.defaultSelect # ""
             THEN /\ evs # <<>>
                  /\ evs[1].ev \in {"copy", "filter"}
                  /\ evs[1].raw = selectNodes(before.t, Root, rule.defaultSelect)
                  /\ Unfiltered(rule) => evs[1].sel = evs[1].raw
             ELSE /\ hist[i].err
                  /\ OnlyThrows(evs)
                  /\ After(i) = before.t

\* a first rule removes the spans, a second rule without select but with a
\* defaultSelect operates on the selection carried from the first
C16_Witness ==
  /\ Len(hist) = 1
  /\ hist[1].op = "execute"
  /\ Len(hist[1].args[2]) = 2
  /\ Flat(hist[1].args[2])
  /\ hist[1].args[2][1].select = "span"
  /\ hist[1].args[2][1].op = "remove"
  /\ hist[1].args[2][2].select = ""
  /\ hist[1].args[2][2].defaultSelect = "#text"
  /\ hist[1].args[2][2].op = "remove"
  /\ ~hist[1].err
  /\ \E j \in DOMAIN hist[1].out :
       hist[1].out[j].ev = "carry" /\ hist[1].out[j].raw # <<>>
  /\ selectNodes(hist[1].pre, Root, "#text") # <<>>

\* C17: in [{select: S}, [{op: X}]] the operation X is applied to exactly
\* the nodes, in order, of the selection the select rule captured.
C17_NestedStartsFromCaller ==
  \A i \in DOMAIN hist :
    (/\ hist[i].op = "execute"
     /\ Len(hist[i].args[2]) = 2
     /\ ~hist[i].args[2][1].nested
     /\ hist[i].args[2][1].select # ""
     /\ hist[i].args[2][1].op = ""
     /\ Unfiltered(hist[i].args[2][1])
     /\ hist[i].args[2][2].nested
     /\ Len(hist[i].args[2][2].rules) = 1
     /\ ~hist[i].args[2][2].rules[1].nested
     /\ hist[i].args[2][2].rules[1].select = ""
     /\ hist[i].args[2][2].rules[1].defaultSelect = ""
     /\ Unfiltered(hist[i].args[2][2].rules[1])
     /\ hist[i].args[2][2].rules[1].op \in StandardNames)
    => /\ ~hist[i].err
       /\ Applied(hist[i].out)
            = selectNodes(hist[i].pre, Root, hist[i].args[2][1].select)

C17_Witness ==
  /\ Len(hist) = 1
  /\ hist[1].op = "execute"
  /\ Len(hist[1].args[2]) = 2
  /\ ~hist[1].args[2][1].nested
  /\ hist[1].args[2][1].select = "span"
  /\ hist[1].args[2][1].op = ""
  /\ hist[1].args[2][2].nested
  /\ hist[1].args[2][2].rules = <<SelRule("", "", "unwrap")>>
  /\ Len(Applied(hist[1].out)) >= 2
  /\ tree # hist[1].pre

\* s is an initial part of t
IsPrefix(s, t) == Len(s) <= Len(t) /\ s = SubSeq(t, 1, Len(s))

\* C18: whatever a nested ruleset selects or filters, once it has returned
\* the enclosing ruleset has the selection it had before: the next rule,
\* if it has no select, carries that selection and operates on it, or finds
\* the selection still undefined.
C18_NestedSelectionStaysInside ==
  \A i \in DOMAIN hist :
    hist[i].op = "execute" =>
      \A j \in DOMAIN hist[i].args[2] :
        (/\ hist[i].args[2][j].nested
         /\ Flat(SubSeq(hist[i].args[2], 1, j - 1))
         /\ j + 1 = Len(hist[i].args[2])
         /\ ~hist[i].args[2][j + 1].nested
         /\ hist[i].args[2][j + 1].select = ""
         /\ Unfiltered(hist[i].args[2][j + 1])
         /\ ~Before(hist[i], j + 1).err)
        => LET rule == hist[i].args[2][j + 1]
               entered == Before(hist[i], j)
               returned == Before(hist[i], j + 1)
               evs == EventsAfter(hist[i], returned)
           IN IF entered.cur.def
              THEN /\ evs # <<>>
                   /\ evs[1].ev = "carry"
                   /\ evs[1].raw = entered.cur.nodes
                   /\ evs[1].sel = entered.cur.nodes
                   /\ IsPrefix(Applied(evs), entered.cur.nodes)
                   /\ ~hist[i].err => Applied(evs) = entered.cur.nodes
              ELSE IF rule.defaultSelect # ""
              THEN /\ evs # <<>>
                   /\ evs[1].ev = "copy"
                   /\ evs[1].raw = selectNodes(returned.t, Root, rule.defaultSelect)
              ELSE hist[i].err /\ OnlyThrows(evs) /\ After(i) = returned.t

\* the spans are selected, a nested ruleset selects the text nodes, and the
\* rule that follows removes the spans
C18_Witness ==
  /\ Len(hist) = 1
  /\ hist[1].op = "execute"
  /\ hist[1].args[2]
       = <<SelRule("span", "", ""), Nested(<<SelRule("#text", "", "")>>),
           SelRule("", "", "remove")>>
  /\ selectNodes(hist[1].pre, Root, "#text") # <<>>
  /\ Applied(hist[1].out) # <<>>
  /\ ~hist[1].err

\* C19: a rule without op lets the run go on to the next entry if it changed
\* the selection (it selected, or took its defaultSelect, or filtered) and
\* throws if it did not.
C19_NoOpRule ==
  \A i \in DOMAIN hist :
    (hist[i].op = "execute" /\ Flat(hist[i].args[2])) =>
      \A k \in DOMAIN hist[i].args[2] :
        LET rule == hist[i].args[2][k]
            before == Before(hist[i], k)
            evs == EventsAfter(hist[i], before)
            changed == rule.select # "" \/ ~before.cur.def \/ ~Unfiltered(rule)
        IN (/\ ~before.err
            /\ rule.op = ""
            /\ rule.select # "" \/ before.cur.def \/ rule.defaultSelect # "")
           => IF changed
              THEN /\ Len(evs) >= 1
                   /\ evs[1].ev # "throw"
                   /\ IF k = Len(hist[i].args[2])
                      THEN ~hist[i].err /\ Len(evs) = 1
                      ELSE Len(evs) >= 2 /\ evs[2].ev # "throw"
              ELSE /\ hist[i].err
                   /\ Len(evs) = 2
                   /\ evs[2].ev = "throw"
                   /\ After(i) = before.t

\* a selection-only rule followed by a rule that neither selects nor
\* operates
C19_Witness ==
  /\ Len(hist) = 1
  /\ hist[1].op = "execute"
  /\ Len(hist[1].args[2]) = 2
  /\ Flat(hist[1].args[2])
  /\ hist[1].args[2][1].select # ""
  /\ hist[1].args[2][1].op = ""
  /\ hist[1].args[2][2].select = ""
  /\ hist[1].args[2][2].op = ""
  /\ Unfiltered(hist[1].args[2][2])
  /\ hist[1].err
  /\ Len(hist[1].out) = 3

\* C20: a rule whose op is not the name of a registered operation throws,
\* and nothing is applied to any node for that rule.
C20_UnregisteredOpThrows ==
  \A i \in DOMAIN hist :
    (hist[i].op = "execute" /\ Flat(hist[i].args[2])) =>
      \A k \in DOMAIN hist[i].args[2] :
        LET rule == hist[i].args[2][k]
            before == Before(hist[i], k)
            evs == EventsAfter(hist[i], before)
        IN (/\ ~before.err
            /\ rule.op # ""
            /\ rule.op \notin StandardNames
            /\ rule.select # "" \/ before.cur.def \/ rule.defaultSelect # "")
           => /\ hist[i].err
              /\ Applied(evs) = <<>>
              /\ After(i) = before.t

(***************************************************************************)
(* Resolving lazy specifications.  The document is the tree under Root;    *)
(* the nodes outside it are the elements still to be created.              *)
(***************************************************************************)
LazyKinds(rootKinds) ==
  {k \in [Nodes -> {"frag", "div", "span", "text"}] :
     /\ k[Root] \in rootKinds
     /\ \A n \in Nodes \ {Root} : k[n] \in {"div", "span"}}

\* a document of divs under a root of one of rootKinds, and divs and spans
\* to create
LazyInit(rootKinds) ==
  /\ \E f \in ParentMaps :
       /\ \A n \in Nodes \ {Root} : f[n] = Null => \A m \in Nodes : f[m] # n
       /\ tree = TreeOf(f)
  /\ kind \in LazyKinds(rootKinds)
  /\ \A n \in Nodes \ {Root} : kind[n] = "span" => parentNode(tree, n) = Null
  /\ hist = <<>>

InitLazy == LazyInit({"div"})

InitWraps == LazyInit({"frag", "div"})

\* the elements not created yet
Free(t) == {n \in Nodes : ~Reachable(t, Root, n)}

Templates == {"div", "span.note", ".note"}

\* the lazy nodes that create what they resolve to
LazyTemplates ==
  {LazyString(str) : str \in Templates} \cup {LazyFunction(LazyString("div"))}

\* the lazy nodes that resolve to a node of the document
LazyConcretes(t) == {LazyConcrete(n) : n \in Nodes \ Free(t)}

TemplateArrays == UNION {[1..n -> LazyTemplates] : n \in 0..(MaxChainLen + 1)}

LazyArrays(t) ==
  TemplateArrays
    \cup {<<a>> : a \in LazyConcretes(t)}
    \cup {<<LazyFunction(a)>> : a \in LazyConcretes(t)}
    \cup {<<a, b>> : a, b \in LazyConcretes(t)}
    \cup {<<a, b>> : a \in LazyTemplates, b \in LazyConcretes(t)}

WrapSpecs(t) ==
  {WrapArray(items) : items \in LazyArrays(t)}
    \cup {WrapFunction(items) :
            items \in UNION {[1..n -> {LazyString("div"), LazyFunction(LazyString("div"))}] :
                               n \in 0..MaxChainLen}}
    \cup {WrapString(str) : str \in Templates}
    \cup {WrapNode(n) : n \in Nodes \ Free(t)}

\* the chains of nodes of the document
DocumentChains(t) == {c \in Chains(t) : Range(c) \cap Free(t) = {}}

\* delazyWraps(wrapSpec, templateWraps); out is the array returned
DelazyWraps ==
  /\ First
  /\ \E wrapSpec \in WrapSpecs(tree), templateWraps \in DocumentChains(tree) :
       LET r == delazyWraps(tree, Free(tree), wrapSpec, templateWraps)
       IN /\ wrapSpec.type # "string" => templateWraps = <<>>
          /\ ~r.short
          /\ CallOut("delazyWraps", <<wrapSpec, templateWraps>>,
                     [t |-> r.t, err |-> r.err], r.wraps)

\* WrapChain.fromLazy(spec, lazyArg); out is this.nodes of the chain built
FromLazy ==
  /\ First
  /\ \E spec \in WrapSpecs(tree), lazyArg \in DocumentChains(tree) :
       LET r == fromLazy(tree, Free(tree), spec, lazyArg)
       IN /\ \/ spec.type = "string"
             \/ spec.type = "array" /\ spec.items \in TemplateArrays /\ lazyArg = <<>>
          /\ ~r.short
          /\ CallOut("WrapChain.fromLazy", <<spec, lazyArg>>,
                     [t |-> r.t, err |-> r.err], r.wraps)

NextLazy == DelazyWraps \/ FromLazy

SpecLazy == InitLazy /\ [][NextLazy]_vars

\* the arg of replaceWraps and wrapWraps
WrapDirections ==
  {Dir(str) : str \in {"self", "around", "within", "sideways"}}
    \cup {Dirs(<<"around", "self">>), Dirs(<<"self", "within">>)}

Replacements ==
  {WrapArray(items) : items \in UNION {[1..n -> {LazyString("div"), LazyString("span.note")}] :
                                          n \in 0..MaxChainLen}}
    \cup {WrapString("div"), WrapFunction(<<LazyString("div")>>)}

\* replaceWraps({direction, replacement})(node) on a node of the document
\* under Root; out is the replacement chain
ReplaceWraps ==
  /\ First
  /\ \E node \in Nodes \ (Free(tree) \cup {Root}), direction \in WrapDirections,
        replacement \in Replacements :
       LET r == STANDARD_replaceWraps(tree, Free(tree), node, direction, replacement)
       IN /\ ~r.short
          /\ CallOut("replaceWraps", <<node, direction, replacement>>,
                     [t |-> r.t, err |-> r.err], r.wraps)

WrapWraps ==
  /\ First
  /\ \E node \in Nodes \ (Free(tree) \cup {Root}), direction \in WrapDirections,
        replacement \in Replacements :
       LET r == STANDARD_wrapWraps(tree, Free(tree), node, direction, replacement)
       IN /\ ~r.short
          /\ CallOut("wrapWraps", <<node, direction, replacement>>,
                     [t |-> r.t, err |-> r.err], r.wraps)

NextWraps == ReplaceWraps \/ WrapWraps

SpecWraps == InitWraps /\ [][NextWraps]_vars

(***************************************************************************)
(* Constructing interpreters.  The extra operations of an instance map    *)
(* some names, standard or not, to implementations of the caller.          *)
(***************************************************************************)
OperationNames == StandardNames \cup {"purge"}

ExtraImplementations == {"opts => node => f(node)", "opts => node => g(node)"}

ExtraOperations ==
  UNION {[names -> ExtraImplementations] : names \in SUBSET OperationNames}

\* the standard library as the calls made so far have left it
StandardNow ==
  IF hist = <<>> THEN STANDARD ELSE Last(hist).out.STANDARD

InitSanti ==
  /\ tree = [n \in Nodes |-> <<>>]
  /\ kind = [n \in Nodes |-> "div"]
  /\ hist = <<>>

NewSanti ==
  /\ Len(hist) < MaxOps
  /\ \E extraOperations \in ExtraOperations :
       CallOut("new Santi", <<extraOperations>>, Ok(tree),
               Santi_constructor(StandardNow, extraOperations))

NextSanti == NewSanti

SpecSanti == InitSanti /\ [][NextSanti]_vars

(***************************************************************************)
(* Claims about the operation libraries of instances                       *)
(***************************************************************************)
\* C24: constructing instances with extra operations leaves the standard
\* library as it was, and this.operations of each instance resolves a name
\* to the instance's own extra operation of that name, else to the
\* standard one, and holds no name that only another instance added.
C24_StandardLibraryUntouched ==
  \A i \in DOMAIN hist :
    hist[i].op = "new Santi" =>
      LET extra == hist[i].args[1]
          operations == hist[i].out.operations
      IN /\ hist[i].out.STANDARD = STANDARD
         /\ \A name \in OperationNames :
              IF name \in DOMAIN extra
              THEN Property(operations, name) = extra[name]
              ELSE IF name \in StandardNames
              THEN Property(operations, name) = STANDARD[name]
              ELSE Property(operations, name) = "undefined"

\* the first instance replaces remove and adds purge, the second gives no
\* extra operation for either
C24_Witness ==
  /\ Len(hist) = 2
  /\ hist[2].op = "new Santi"
  /\ {"remove", "purge"} \subseteq DOMAIN hist[1].args[1]
  /\ DOMAIN hist[2].args[1] = {"unwrap"}
  /\ Property(hist[2].out.operations, "remove") = "remove"

(***************************************************************************)
(* Claims about trimmed discovery and chains from a node                   *)
(***************************************************************************)
\* C29: getWraps with a trim returns a contiguous run of the chain found
\* without it: the run from the first entry that fails trim to the last
\* one that fails it, the entries between them kept whatever trim says of
\* them; it is empty exactly when every entry satisfies trim.
C29_TrimKeepsInnerRun ==
  \A i \in DOMAIN hist :
    (hist[i].op = "WrapChain.getWraps trim" /\ ~hist[i].err) =>
      LET h == hist[i]
          full == WrapChain_getWraps(h.pre, h.args[1], h.args[2], NoTrim).wraps
          s == h.args[3].s
      IN /\ (h.out = <<>>) <=> (\A j \in DOMAIN full : full[j] \in s)
         /\ h.out # <<>> =>
              \E a, b \in DOMAIN full :
                /\ a <= b
                /\ h.out = SubSeq(full, a, b)
                /\ full[a] \notin s /\ full[b] \notin s
                /\ \A j \in DOMAIN full : (j < a \/ j > b) => full[j] \in s

\* entries are dropped at both ends and, of the three kept, the middle one
\* satisfies trim
C29_Witness ==
  /\ Len(hist) = 1
  /\ hist[1].op = "WrapChain.getWraps trim"
  /\ hist[1].args[2] = AroundSelfWithin
  /\ ~hist[1].err
  /\ Len(hist[1].out) = 3
  /\ hist[1].out[2] \in hist[1].args[3].s
  /\ LET full == WrapChain_getWraps(hist[1].pre, hist[1].args[1],
                                    hist[1].args[2], NoTrim).wraps
     IN /\ Len(full) = 5
        /\ hist[1].out = SubSeq(full, 2, 4)

\* C30: WrapChain.fromNode(node, ['around', 'self', 'within']), with a trim
\* or without, throws nothing: what getWraps returns is a chain.
C30_FromNodeBuildsChain ==
  \A i \in DOMAIN hist :
    (hist[i].op = "WrapChain.fromNode" /\ hist[i].args[2] = AroundSelfWithin) =>
      /\ ~hist[i].err
      /\ hist[i].out.nodes =
           WrapChain_getWraps(hist[i].pre, hist[i].args[1], hist[i].args[2],
                              hist[i].args[3]).wraps
      /\ Breaks(hist[i].pre, hist[i].out.nodes) = {}

\* a chain of three with wrappers around the node and within it, the node
\* the last one has two children
C30_Witness ==
  /\ Len(hist) = 1
  /\ hist[1].op = "WrapChain.fromNode"
  /\ hist[1].args[2] = AroundSelfWithin
  /\ hist[1].args[3] = NoTrim
  /\ ~hist[1].err
  /\ Len(hist[1].out.nodes) = 3
  /\ hist[1].out.nodes[2] = hist[1].args[1]
  /\ Len(hist[1].pre[hist[1].out.nodes[3]]) = 2

(***************************************************************************)
(* Claims about the resolution of lazy chains                              *)
(***************************************************************************)
\* the nodes are different elements created by the call h, each after the
\* first the only child of the one before it in tree t
NewElementChain(h, t, nodes) ==
  /\ \A j \in DOMAIN nodes : nodes[j] \in Free(h.pre)
  /\ \A j, k \in DOMAIN nodes : j # k => nodes[j] # nodes[k]
  /\ \A j \in 2..Len(nodes) : t[nodes[j - 1]] = <<nodes[j]>>

\* C25: delazyWraps and WrapChain.fromLazy, given a template string with a
\* tag name and a template chain of length L, return L different new
\* elements, each after the first the only child of the one before it.
C25_ReplicateBuildsChain ==
  \A i \in DOMAIN hist :
    (/\ hist[i].op \in {"delazyWraps", "WrapChain.fromLazy"}
     /\ hist[i].args[1].type = "string"
     /\ tagMatch(hist[i].args[1].str) # "null")
    => /\ ~hist[i].err
       /\ Len(hist[i].out) = Len(hist[i].args[2])
       /\ NewElementChain(hist[i], After(i), hist[i].out)

\* what the spec resolves to in the array out at position j: the node
\* itself for a node or a function returning one, else a new element of
\* the tag of the template
ResolvesTo(h, spec, out, j) ==
  IF spec.node # Null THEN out[j] = spec.node
  ELSE /\ out[j] \in Free(h.pre)
       /\ kind[out[j]] = tagMatch(spec.str)
       /\ \A k \in DOMAIN out : k # j => out[k] # out[j]

\* C28: delazyWraps, given an array of L lazy nodes or a function returning
\* one, returns L nodes, the j-th the resolution of the j-th lazy node, each
\* after the first appended to the one before it as its last child; the
\* empty array gives the empty chain and changes nothing; and the call
\* returns whenever every lazy node is a template with a tag name.
C28_ExplicitListBuildsChain ==
  \A i \in DOMAIN hist :
    (hist[i].op = "delazyWraps" /\ hist[i].args[1].type \in {"array", "function"}) =>
      LET h == hist[i]
          items == h.args[1].items
      IN /\ (\A j \in DOMAIN items :
               items[j].node = Null /\ tagMatch(items[j].str) # "null") => ~h.err
         /\ ~h.err =>
              /\ Len(h.out) = Len(items)
              /\ \A j \in DOMAIN items : ResolvesTo(h, items[j], h.out, j)
              /\ \A j \in 2..Len(items) :
                   /\ After(i)[h.out[j - 1]] # <<>>
                   /\ Last(After(i)[h.out[j - 1]]) = h.out[j]
              /\ items = <<>> => After(i) = h.pre

\* an array of three templates, not all of one tag
C28_Witness ==
  /\ Len(hist) = 1
  /\ hist[1].op = "delazyWraps"
  /\ hist[1].args[1].type = "array"
  /\ ~hist[1].err
  /\ Len(hist[1].out) = 3
  /\ \A j \in 1..3 : hist[1].args[1].items[j].type = "string"
  /\ kind[hist[1].out[1]] # kind[hist[1].out[2]]
  /\ tree[hist[1].out[2]] = <<hist[1].out[3]>>

\* the call h of replaceWraps or wrapWraps has a chain of wrappers around
\* or in its node and a replacement that is a list of templates with tag
\* names, one at least
WrapsBothGiven(h) ==
  /\ ~WrapChain_getWraps(h.pre, h.args[1], h.args[2], [def |-> FALSE, s |-> {}]).err
  /\ WrapChain_getWraps(h.pre, h.args[1], h.args[2], [def |-> FALSE, s |-> {}]).wraps # <<>>
  /\ h.args[3].type \in {"array", "function"}
  /\ h.args[3].items # <<>>

\* the chain the call h discovers
OldWraps(h) ==
  WrapChain_getWraps(h.pre, h.args[1], h.args[2], [def |-> FALSE, s |-> {}]).wraps

\* in tree t node new is where node old was in the tree the call h found
TakesPlace(h, t, new, old) ==
  LET p == parentNode(h.pre, old)
  IN p # Null =>
       /\ parentNode(t, new) = p
       /\ IndexOf(t[p], new) = IndexOf(h.pre[p], old)

\* C26: replaceWraps puts the replacement chain where the discovered chain
\* was: its outer node in the place of the old outer node, the children of
\* the old inner node under its inner node, the old chain out of the tree.
C26_ReplaceWrapsReplaces ==
  \A i \in DOMAIN hist :
    (hist[i].op = "replaceWraps" /\ WrapsBothGiven(hist[i])) =>
      LET h == hist[i]
          old == OldWraps(h)
      IN /\ ~h.err
         /\ h.out # <<>>
         /\ TakesPlace(h, After(i), h.out[1], old[1])
         /\ After(i)[Last(h.out)] = h.pre[Last(old)]
         /\ parentNode(After(i), old[1]) = Null
         /\ After(i)[Last(old)] = <<>>

\* C27: wrapWraps completes without error, the replacement's outer node in
\* the place of the old outer node and the old outer node the only child
\* of the replacement's inner node.
C27_WrapWrapsInserts ==
  \A i \in DOMAIN hist :
    (hist[i].op = "wrapWraps" /\ WrapsBothGiven(hist[i])) =>
      LET h == hist[i]
          old == OldWraps(h)
      IN /\ ~h.err
         /\ h.out # <<>>
         /\ TakesPlace(h, After(i), h.out[1], old[1])
         /\ After(i)[Last(h.out)] = <<old[1]>>

(***************************************************************************)
(* Claims about a pass over the selection                                  *)
(***************************************************************************)
\* the events of entry k of h's ruleset
RuleEvents(h, k) ==
  SubSeq(h.out, Len(Before(h, k).trace) + 1, Len(Before(h, k + 1).trace))

\* the tree after the operation has run on each of the nodes in turn, each
\* run starting on the tree the one before left
RECURSIVE InOrder(_, _, _, _)
InOrder(op, arg, t, nodes) ==
  IF nodes = <<>> THEN t
  ELSE InOrder(op, arg, Configured(STANDARD[op], arg, t, Head(nodes)).t, Tail(nodes))

\* C21: a rule with a registered op applies it to every node of its
\* selection once, in the order of the selection, each application on the
\* tree the previous one left, whatever the earlier applications did to the
\* later nodes; an application that throws ends the pass.
C21_AppliedInSelectionOrder ==
  \A i \in DOMAIN hist :
    (hist[i].op = "execute" /\ Flat(hist[i].args[2])) =>
      \A k \in DOMAIN hist[i].args[2] :
        LET rule == hist[i].args[2][k]
            before == Before(hist[i], k)
            after == Before(hist[i], k + 1)
            evs == RuleEvents(hist[i], k)
        IN (/\ ~before.err
            /\ rule.op \in StandardNames
            /\ rule.select # "" \/ before.cur.def \/ rule.defaultSelect # "")
           => /\ evs # <<>>
              /\ evs[1].ev \in {"copy", "carry", "filter"}
              /\ IsPrefix(Applied(evs), evs[1].sel)
              /\ ~after.err =>
                   /\ Applied(evs) = evs[1].sel
                   /\ after.t = InOrder(rule.op, rule.arg, before.t, evs[1].sel)

\* the spans are removed, one of them the child of another: the child is
\* removed from a parent that has left the document already
C21_Witness ==
  /\ Len(hist) = 1
  /\ hist[1].op = "execute"
  /\ hist[1].args[2] = <<SelRule("span", "", "remove")>>
  /\ ~hist[1].err
  /\ Len(Applied(hist[1].out)) >= 2
  /\ \E a, b \in Range(Applied(hist[1].out)) :
       /\ parentNode(hist[1].pre, b) = a
       /\ parentNode(tree, b) = Null

\* the descendants of root that are not spans, in document order
NonSpans(t) == SelectSeq(PreorderAll(t, t[Root]), LAMBDA n : kind[n] # "span")

\* C22: after [{select: 'span'}, {op: 'unwrap'}] no selected span is
\* reachable from root, and root has the non-span descendants it had, in
\* the document order they had.
C22_UnwrapSpans ==
  \A i \in DOMAIN hist :
    (/\ hist[i].op = "execute"
     /\ hist[i].args[2] = <<SelRule("span", "", ""), SelRule("", "", "unwrap")>>)
    => /\ ~hist[i].err
       /\ \A n \in Range(selectNodes(hist[i].pre, Root, "span")) :
            ~Reachable(After(i), Root, n)
       /\ NonSpans(After(i)) = NonSpans(hist[i].pre)

\* a span in a span, text in the inner span and text beside it
C22_Witness ==
  /\ Len(hist) = 1
  /\ hist[1].op = "execute"
  /\ hist[1].args[2] = <<SelRule("span", "", ""), SelRule("", "", "unwrap")>>
  /\ ~hist[1].err
  /\ \E a, b \in Nodes :
       /\ kind[a] = "span" /\ kind[b] = "span"
       /\ parentNode(hist[1].pre, b) = a
       /\ hist[1].pre[b] # <<>>
       /\ Len(hist[1].pre[a]) >= 2

\* the first entry of h's ruleset whose run ends in an error
FailingEntry(h) ==
  CHOOSE k \in DOMAIN h.args[2] :
    Before(h, k + 1).err /\ \A j \in 1..k : ~Before(h, j).err

\* C23: when execute aborts in a rule, the tree is as it was just before
\* that rule started.
C23_AbortLeavesTreeAsBeforeRule ==
  \A i \in DOMAIN hist :
    (/\ hist[i].op = "execute"
     /\ hist[i].err
     /\ ~hist[i].args[2][FailingEntry(hist[i])].nested)
    => After(i) = Before(hist[i], FailingEntry(hist[i])).t

====
